---- MODULE Spec2Model ----
(***************************************************************************)
(* Lottery backend: wallet ledger, ticket purchase, lifecycle sweep and    *)
(* draw, over a document store with snapshot-isolated multi-document       *)
(* transactions (first writer wins on a document; a write outside a        *)
(* transaction waits for the transaction that holds the document).         *)
(* Money is counted in minor units.                                        *)
(***************************************************************************)
EXTENDS Integers, Sequences, FiniteSets, TLC

\* ---------------------------------------------------------------- bounds
MaxPurchases == 2         \* purchases started, sale and draw together
MaxAdminDraws == 1        \* draws forced by the administrator
MaxSweeps == 2            \* cron callbacks started
MaxSalePurchases == 3     \* purchases started, the purchase route alone
MaxLedgerPurchases == 1   \* purchases started next to the wallet routes
MaxWalletOps == 2         \* wallet requests started
MaxRecords == 2           \* WalletTransactionRecord ids a moderator may name
MaxBandPurchases == 2     \* purchases started before a draw over several bands
MaxBandDraws == 1         \* draws asked for by a caller, forced or not
MaxBandSweeps == 1        \* cron callbacks started next to those draws
MaxRoleEdits == 1         \* accounts an administrator takes the role user from
MaxLifePurchases == 2     \* purchases started during the life of a lottery
MaxLifeDraws == 1         \* draws forced by the administrator during that life
MaxLifeSweeps == 2        \* cron callbacks started during that life
MaxFlagSweeps == 1        \* cron callbacks started during a sale
MaxScopePurchases == 2    \* purchase requests next to draws and wallet operations
MaxScopeDraws == 1        \* draws asked for with or without a session
MaxScopeWalletOps == 1    \* updateWallet calls without a session
MaxRequestOps == 3        \* withdrawal requests and moderations of them started
MaxChosenPurchases == 2   \* purchases with chosen numbers started before a draw
MaxChosenDraws == 1       \* draws forced after those purchases
MaxLivePurchases == 2     \* purchases started before the scheduler's repeated ticks
MaxTwoPurchases == 2      \* purchases started on two lotteries before one cron tick
MaxTwoSweeps == 1         \* cron callbacks started over the two lotteries
MaxTwoDraws == 1          \* draws started by the administrator on the two lotteries
MaxModerationOps == 3     \* top-up requests and moderations of them started

\* ---------------------------------------------------------------- universe
Accounts == {"u1", "u2"}
AccountIds == Accounts \cup {"ghost"}
LotteryIds == {"L1", "L2"}
Reqs == {"r1", "r2"}
Crons == {"c1", "c2"}
Pids == Reqs \cup Crons

NoTp == 0

\* `${lotteryPrefix}-${String(i).padStart(4, "0")}`
Digits(i) == IF i < 10 THEN <<i>> ELSE <<i \div 10, i % 10>>
RECURSIVE PadStart(_, _, _)
PadStart(s, n, c) == IF Len(s) >= n THEN s ELSE PadStart(<<c>> \o s, n, c)
TicketNum(prefix, i) == <<prefix, PadStart(Digits(i), 4, 0)>>
StartsWith(t, prefix) == t[1] = prefix

\* ---------------------------------------------------------------- state
VARIABLES
  now,        \* wall clock
  users,      \* User collection: [Accounts -> [balance, role]]
  ledger,     \* Transaction collection, in insertion order
  lot,        \* Lottery collection: [LotteryIds -> document or NoLottery]
  tps,        \* TicketPurchase collection, in insertion order
  results,    \* LotteryResult collection, in insertion order
  wrecs,      \* WalletTransactionRecord collection, in insertion order
  approvalMode, \* process.env.APPROVAL_MODE
  proc,       \* request handlers and cron callbacks in flight
  budget,     \* operations still to be started
  last        \* the response sent by the step just taken, if it sent one

vars == <<now, users, ledger, lot, tps, results, wrecs, approvalMode, proc, budget,
          last>>
db == <<users, ledger, lot, tps, results, wrecs>>

NoLottery == [exists |-> FALSE]

LotteryDoc(prefix, price, maxT, maxPer, ws, s, e, d) ==
  [exists |-> TRUE, lotteryPrefix |-> prefix, ticketPrice |-> price,
   maxTickets |-> maxT, maxTicketsPerUser |-> maxPer, winnerStructure |-> ws,
   startDatetime |-> s, endDatetime |-> e, drawDatetime |-> d,
   ticketsSold |-> 0,
   flags |-> [isUpcoming |-> TRUE, isActive |-> FALSE, isEnded |-> FALSE,
              resultAnnounced |-> FALSE]]

IdleProc ==
  [pc |-> "idle", op |-> "none", u |-> "none", l |-> "none", qty |-> 0,
   tickets |-> <<>>, cost |-> 0, exist |-> NoTp, force |-> FALSE, own |-> FALSE,
   winners |-> <<>>,
   active |-> FALSE, staleU |-> {}, staleL |-> {}, staleT |-> {},
   lockU |-> {}, lockL |-> {}, lockT |-> {},
   vUsers |-> <<>>, vLot |-> <<>>, vTps |-> <<>>,
   nTps |-> <<>>, nLedger |-> <<>>, nResults |-> <<>>,
   snow |-> 0, todo |-> <<>>, amt |-> 0, bal |-> 0, rec |-> 0, kind |-> "none",
   open |-> FALSE]    \* the slot's last handler returned with its session open

Resp(op, resp) == [op |-> op, resp |-> resp]
NoResp == Resp("none", "none")
\* the step sends no response
Quiet == last' = NoResp

\* Handlers are interchangeable: a new request or callback takes the first
\* free slot of its kind.
Lower(p) == IF p = "r2" THEN {"r1"} ELSE IF p = "c2" THEN {"c1"} ELSE {}
Free(p) == proc[p].pc = "idle" /\ \A q \in Lower(p) : proc[q].pc # "idle"

\* ---------------------------------------------------------------- transactions
\* session.startTransaction(): the snapshot is taken by the first read.
StartTxn(pr) ==
  [pr EXCEPT !.active = TRUE, !.vUsers = users, !.vLot = lot, !.vTps = tps]

HeldU(p, u) == \E q \in Pids \ {p} : proc[q].active /\ u \in proc[q].lockU
HeldL(p, l) == \E q \in Pids \ {p} : proc[q].active /\ l \in proc[q].lockL
HeldT(p, i) == \E q \in Pids \ {p} : proc[q].active /\ i \in proc[q].lockT

\* a lottery document is never in conflict
WriteConflictL_Never(p, l) == FALSE

\* A write inside a transaction fails (WriteConflict) when the document was
\* committed by someone else after the snapshot, or is held by another
\* transaction.
WriteConflictU(p, u) == u \in proc[p].staleU \/ HeldU(p, u)
WriteConflictL(p, l) == l \in proc[p].staleL \/ HeldL(p, l)
WriteConflictT(p, i) == i \in proc[p].staleT \/ HeldT(p, i)

\* Every other open transaction learns that these documents changed.
MarkStale(pr, writer, dU, dL, dT) ==
  [q \in Pids |->
     IF q # writer /\ pr[q].active
       THEN [pr[q] EXCEPT !.staleU = @ \cup dU, !.staleL = @ \cup dL,
                          !.staleT = @ \cup dT]
       ELSE pr[q]]

\* session.commitTransaction(): the written documents and the inserts become
\* visible together.
CommitUsers(pr) ==
  [u \in Accounts |-> IF u \in pr.lockU THEN pr.vUsers[u] ELSE users[u]]
CommitLot(pr) ==
  [l \in LotteryIds |-> IF l \in pr.lockL THEN pr.vLot[l] ELSE lot[l]]
CommitTps(pr) ==
  [i \in 1..Len(tps) |-> IF i \in pr.lockT THEN pr.vTps[i] ELSE tps[i]] \o pr.nTps

CommitTxn(p) ==
  /\ users' = CommitUsers(proc[p])
  /\ lot' = CommitLot(proc[p])
  /\ tps' = CommitTps(proc[p])
  /\ ledger' = ledger \o proc[p].nLedger
  /\ results' = results \o proc[p].nResults

\* The handler ends; its transaction, if any, holds nothing any more.
Finish(p, op, resp) ==
  /\ proc' = [proc EXCEPT ![p] = IdleProc]
  /\ last' = Resp(op, resp)

\* session.abortTransaction(): nothing the transaction wrote is kept.
AbortTxn(p, op, resp) ==
  /\ Finish(p, op, resp)
  /\ UNCHANGED db

\* return res.status(4xx) before any write, by a handler that has no session
Reject(p, op, resp) ==
  /\ Finish(p, op, resp)
  /\ UNCHANGED db

\* ---------------------------------------------------------------- wallet ledger
Abs(x) == IF x < 0 THEN -x ELSE x

\* the entry stores the signed change instead of its absolute value
TransactionDoc_SignedAmount(u, change, newBalance, description) ==
  [user |-> u, amount |-> change,
   type |-> IF change >= 0 THEN "credit" ELSE "debit",
   description |-> description, balanceAfter |-> newBalance]

TransactionDoc(u, change, newBalance, description) ==
  [user |-> u, amount |-> Abs(change),
   type |-> IF change >= 0 THEN "credit" ELSE "debit",
   description |-> description, balanceAfter |-> newBalance]

\* the new balance is not compared with zero
UpdateWalletError_NoFundsCheck(vU, userId, amount) ==
  IF amount = 0 THEN "Invalid amount"
  ELSE IF userId \notin DOMAIN vU THEN "User not found"
  ELSE IF vU[userId].role # "user" THEN "Only users have wallets"
  ELSE "ok"

\* updateWallet, the checks: the error it throws, or "ok".
UpdateWalletError(vU, userId, amount) ==
  IF amount = 0 THEN "Invalid amount"
  ELSE IF userId \notin DOMAIN vU THEN "User not found"
  ELSE IF vU[userId].role # "user" THEN "Only users have wallets"
  ELSE IF vU[userId].balance + amount < 0 THEN "INSUFFICIENT_FUNDS"
  ELSE "ok"

\* updateWallet, the writes inside the session: user.save and Transaction.create.
UpdateWalletWrite(pr, userId, amount, description) ==
  LET newBalance == pr.vUsers[userId].balance + amount IN
  [pr EXCEPT !.vUsers[userId].balance = newBalance,
             !.lockU = @ \cup {userId},
             !.nLedger = Append(@, TransactionDoc(userId, amount, newBalance,
                                                  description))]

\* updateWallet(userId, amount, description) called without a session.
WalletStart(p, u, amount) ==
  /\ Free(p)
  /\ budget.wallet > 0
  /\ budget' = [budget EXCEPT !.wallet = @ - 1]
  /\ IF amount = 0
       THEN Reject(p, "wallet", "Invalid amount")
       ELSE LET err == UpdateWalletError(users, u, amount) IN
            IF err # "ok"
              THEN AbortTxn(p, "wallet", err)
              ELSE /\ proc' = [proc EXCEPT ![p] =
                         [StartTxn(IdleProc) EXCEPT !.pc = "uw_save",
                            !.op = "wallet", !.u = u, !.amt = amount, !.own = TRUE]]
                   /\ UNCHANGED db
                   /\ Quiet
  /\ UNCHANGED <<now, approvalMode>>

WalletSave(p) ==
  /\ proc[p].pc = "uw_save"
  /\ IF WriteConflictU(p, proc[p].u)
       THEN AbortTxn(p, "wallet", "WriteConflict")
       ELSE /\ proc' = [proc EXCEPT ![p] =
                  [UpdateWalletWrite(proc[p], proc[p].u, proc[p].amt, <<"wallet">>)
                     EXCEPT !.pc = "uw_commit"]]
            /\ UNCHANGED db
            /\ Quiet
  /\ UNCHANGED <<now, budget, approvalMode>>

WalletCommit(p) ==
  /\ proc[p].pc = "uw_commit"
  /\ CommitTxn(p)
  /\ proc' = [MarkStale(proc, p, proc[p].lockU, {}, {}) EXCEPT ![p] = IdleProc]
  /\ last' = Resp("wallet", "ok")
  /\ UNCHANGED <<now, budget, wrecs, approvalMode>>

\* ---------------------------------------------------------------- wallet routes
WalletRecordDoc(u, type, amount, status) ==
  [user |-> u, type |-> type, amount |-> amount, status |-> status]

\* user.save() outside any transaction: $set walletBalance, after waiting for
\* the transaction that holds the document.
SaveBalance(p, u, newBalance, nextPc) ==
  /\ ~HeldU(p, u)
  /\ users' = [users EXCEPT ![u].balance = newBalance]
  /\ proc' = [MarkStale(proc, p, {u}, {}, {}) EXCEPT ![p].pc = nextPc]
  /\ UNCHANGED <<ledger, lot, tps, results, wrecs>>
  /\ Quiet

\* POST /wallet/add
TopUpStart(p, u, amount) ==
  /\ Free(p)
  /\ budget.wallet > 0
  /\ budget' = [budget EXCEPT !.wallet = @ - 1]
  /\ IF amount <= 0
       THEN Reject(p, "topup", "Invalid amount")
     ELSE IF approvalMode = "auto"
       THEN /\ proc' = [proc EXCEPT ![p] =
                  [IdleProc EXCEPT !.pc = "t_save", !.op = "topup", !.u = u,
                                   !.amt = amount, !.bal = users[u].balance]]
            /\ UNCHANGED db
            /\ Quiet
     ELSE /\ wrecs' = Append(wrecs, WalletRecordDoc(u, "topup", amount, "pending"))
          /\ Finish(p, "topup", "pending")
          /\ UNCHANGED <<users, ledger, lot, tps, results>>
  /\ UNCHANGED <<now, approvalMode>>

TopUpSave(p) ==
  /\ proc[p].pc = "t_save"
  /\ SaveBalance(p, proc[p].u, proc[p].bal + proc[p].amt, "t_rec")
  /\ UNCHANGED <<now, budget, approvalMode>>

TopUpRecord(p) ==
  /\ proc[p].pc = "t_rec"
  /\ wrecs' = Append(wrecs,
                WalletRecordDoc(proc[p].u, "topup", proc[p].amt, "approved"))
  /\ Finish(p, "topup", "approved")
  /\ UNCHANGED <<users, ledger, lot, tps, results, now, budget, approvalMode>>

\* the balance is not compared with the amount
WithdrawStart_NoBalanceCheck(p, u, amount) ==
  /\ Free(p)
  /\ budget.wallet > 0
  /\ budget' = [budget EXCEPT !.wallet = @ - 1]
  /\ IF amount <= 0
       THEN Reject(p, "withdraw", "Invalid amount")
     ELSE /\ proc' = [proc EXCEPT ![p] =
                [IdleProc EXCEPT !.pc = "w_save", !.op = "withdraw", !.u = u,
                                 !.amt = amount, !.bal = users[u].balance]]
          /\ UNCHANGED db
          /\ Quiet
  /\ UNCHANGED <<now, approvalMode>>

\* POST /wallet/withdraw
WithdrawStart(p, u, amount) ==
  /\ Free(p)
  /\ budget.wallet > 0
  /\ budget' = [budget EXCEPT !.wallet = @ - 1]
  /\ IF amount <= 0
       THEN Reject(p, "withdraw", "Invalid amount")
     ELSE IF users[u].balance < amount
       THEN Reject(p, "withdraw", "Insufficient balance")
     ELSE /\ proc' = [proc EXCEPT ![p] =
                [IdleProc EXCEPT !.pc = "w_save", !.op = "withdraw", !.u = u,
                                 !.amt = amount, !.bal = users[u].balance]]
          /\ UNCHANGED db
          /\ Quiet
  /\ UNCHANGED <<now, approvalMode>>

WithdrawSave(p) ==
  /\ proc[p].pc = "w_save"
  /\ SaveBalance(p, proc[p].u, proc[p].bal - proc[p].amt, "w_rec")
  /\ UNCHANGED <<now, budget, approvalMode>>

WithdrawRecord(p) ==
  /\ proc[p].pc = "w_rec"
  /\ LET status == IF approvalMode = "auto" THEN "approved" ELSE "pending" IN
     /\ wrecs' = Append(wrecs,
                   WalletRecordDoc(proc[p].u, "withdraw", proc[p].amt, status))
     /\ Finish(p, "withdraw", status)
  /\ UNCHANGED <<users, ledger, lot, tps, results, now, budget, approvalMode>>

\* The four moderation routes of the administrator:
\*   approve-topup    POST /wallet/top-up-requests/:id/approve
\*   reject-topup     POST /wallet/top-up-requests/:id/reject
\*   approve-withdraw POST /wallet/withdraw-requests/:id/approve
\*   reject-withdraw  POST /wallet/withdraw-requests/:id/reject
ModerationKinds ==
  {"approve-topup", "reject-topup", "approve-withdraw", "reject-withdraw"}
RecordType(kind) ==
  IF kind \in {"approve-topup", "reject-topup"} THEN "topup" ELSE "withdraw"
NewStatus(kind) ==
  IF kind \in {"approve-topup", "approve-withdraw"} THEN "approved" ELSE "rejected"
MovesFunds(kind) == kind \in {"approve-topup", "reject-withdraw"}
WrongType(kind) ==
  IF RecordType(kind) = "topup" THEN "Not a top-up record"
  ELSE "Not a withdrawal record"

\* WalletTransactionRecord.findById and the checks on the record
ModerateStart(p, r, kind) ==
  /\ Free(p)
  /\ budget.wallet > 0
  /\ budget' = [budget EXCEPT !.wallet = @ - 1]
  /\ IF r \notin DOMAIN wrecs THEN Reject(p, kind, "Record not found")
     ELSE IF wrecs[r].type # RecordType(kind) THEN Reject(p, kind, WrongType(kind))
     ELSE IF wrecs[r].status # "pending" THEN Reject(p, kind, "Already processed")
     ELSE /\ proc' = [proc EXCEPT ![p] =
                [IdleProc EXCEPT !.pc = IF MovesFunds(kind) THEN "m_user" ELSE "m_rec",
                                 !.op = kind, !.kind = kind, !.rec = r,
                                 !.u = wrecs[r].user, !.amt = wrecs[r].amount]]
          /\ UNCHANGED db
          /\ Quiet
  /\ UNCHANGED <<now, approvalMode>>

\* User.findById(record.user)
ModerateReadUser(p) ==
  /\ proc[p].pc = "m_user"
  /\ proc' = [proc EXCEPT ![p].pc = "m_save", ![p].bal = users[proc[p].u].balance]
  /\ UNCHANGED <<db, now, budget, approvalMode>>
  /\ Quiet

\* user.walletBalance = balance + amount; user.save()
ModerateSaveUser(p) ==
  /\ proc[p].pc = "m_save"
  /\ SaveBalance(p, proc[p].u, proc[p].bal + proc[p].amt, "m_rec")
  /\ UNCHANGED <<now, budget, approvalMode>>

\* record.status = ...; record.save()
ModerateSaveRecord(p) ==
  /\ proc[p].pc = "m_rec"
  /\ wrecs' = [wrecs EXCEPT ![proc[p].rec].status = NewStatus(proc[p].kind)]
  /\ Finish(p, proc[p].kind, NewStatus(proc[p].kind))
  /\ UNCHANGED <<users, ledger, lot, tps, results, now, budget, approvalMode>>

\* PUT /users/:id with role "admin": User.findByIdAndUpdate outside any
\* transaction; it waits for the transaction that holds the document.
EditUserRole(u) ==
  /\ users[u].role = "user"
  /\ Cardinality({v \in Accounts : users[v].role # "user"}) < MaxRoleEdits
  /\ \A q \in Pids : ~(proc[q].active /\ u \in proc[q].lockU)
  /\ users' = [users EXCEPT ![u].role = "admin"]
  /\ proc' = MarkStale(proc, "admin", {u}, {}, {})
  /\ UNCHANGED <<ledger, lot, tps, results, wrecs, now, approvalMode, budget>>
  /\ Quiet

\* ---------------------------------------------------------------- ticket allocator
computeLotteryFlags(lottery, t) ==
  LET hasStarted == t >= lottery.startDatetime
                      \/ lottery.ticketsSold >= lottery.maxTickets
      hasEnded == t >= lottery.endDatetime
                      \/ lottery.ticketsSold >= lottery.maxTickets
  IN [isActive |-> hasStarted, isEnded |-> hasEnded,
      resultAnnounced |-> t >= lottery.drawDatetime]

Range(s) == {s[i] : i \in DOMAIN s}

\* purchases.flatMap((p) => p.ticketNumbers), as a Set
SoldTicketsSet(vT, l) ==
  UNION {Range(vT[i].ticketNumbers) : i \in {j \in DOMAIN vT : vT[j].lotteryId = l}}

\* the numbers 1..maxTickets, formatted, that are not sold, ascending
AvailableTickets(lottery, sold) ==
  LET all == [i \in 1..lottery.maxTickets |-> TicketNum(lottery.lotteryPrefix, i)]
      free(t) == t \notin sold
  IN SelectSeq(all, free)

\* TicketPurchase.findOne({lotteryId, userId})
ExistingPurchase(vT, l, u) ==
  LET hits == {i \in DOMAIN vT : vT[i].lotteryId = l /\ vT[i].userId = u}
  IN IF hits = {} THEN NoTp ELSE CHOOSE i \in hits : \A j \in hits : i <= j

\* the existing allocation is not counted
ExistingQty_NotCounted(vT, l, u) == 0

ExistingQty(vT, l, u) ==
  IF ExistingPurchase(vT, l, u) = NoTp THEN 0
  ELSE vT[ExistingPurchase(vT, l, u)].quantity

\* only the prefix of a chosen number is looked at
InvalidChosen_PrefixOnly(lottery, available, chosenTickets) ==
  LET bad(t) == ~StartsWith(t, lottery.lotteryPrefix)
  IN SelectSeq(chosenTickets, bad)

InvalidChosen(lottery, available, chosenTickets) ==
  LET bad(t) == ~StartsWith(t, lottery.lotteryPrefix) \/ t \notin Range(available)
  IN SelectSeq(chosenTickets, bad)

\* the phase is read from the stored flags instead of computed
PurchaseVerdict_StoredFlags(vL, vT, t, l, u, quantity, chosenTickets) ==
  IF quantity <= 0 THEN "Invalid ticket quantity"
  ELSE IF l \notin LotteryIds THEN "Invalid lotteryId"
  ELSE IF ~vL[l].exists THEN "Lottery not found"
  ELSE IF ~vL[l].flags.isActive \/ vL[l].flags.isEnded THEN "Lottery is not active"
  ELSE IF ExistingQty(vT, l, u) + quantity > vL[l].maxTicketsPerUser
    THEN "Per-user limit exceeded"
  ELSE LET available == AvailableTickets(vL[l], SoldTicketsSet(vT, l)) IN
       IF Len(chosenTickets) > 0
         THEN IF Len(InvalidChosen(vL[l], available, chosenTickets)) > 0
                THEN "Some chosen tickets are invalid or already sold"
              ELSE IF Len(chosenTickets) # quantity
                THEN "Quantity does not match chosen tickets count"
              ELSE "ok"
         ELSE IF Len(available) < quantity THEN "Not enough tickets available"
              ELSE "ok"

\* return res.status(4xx).json({ error }) of the purchase route, before any
\* write: the handler returns without abortTransaction or endSession, the
\* transaction it started stays open, having only read.
RejectPurchase(p, resp) ==
  /\ proc' = [proc EXCEPT ![p] = [IdleProc EXCEPT !.open = TRUE]]
  /\ last' = Resp("purchase", resp)
  /\ UNCHANGED db

\* res.status(400).json({ error, invalid }): the answer lists the chosen
\* numbers that were refused
RejectInvalid(p, resp, invalid) ==
  /\ proc' = [proc EXCEPT ![p] = [IdleProc EXCEPT !.open = TRUE]]
  /\ last' = [op |-> "purchase", resp |-> resp, invalid |-> invalid]
  /\ UNCHANGED db

\* The handler's checks before the debit, in the order of the code: the
\* rejection, or "ok".
PurchaseVerdict(vL, vT, t, l, u, quantity, chosenTickets) ==
  IF quantity <= 0 THEN "Invalid ticket quantity"
  ELSE IF l \notin LotteryIds THEN "Invalid lotteryId"
  ELSE IF ~vL[l].exists THEN "Lottery not found"
  ELSE IF ~computeLotteryFlags(vL[l], t).isActive
            \/ computeLotteryFlags(vL[l], t).isEnded THEN "Lottery is not active"
  ELSE IF ExistingQty(vT, l, u) + quantity > vL[l].maxTicketsPerUser
    THEN "Per-user limit exceeded"
  ELSE LET available == AvailableTickets(vL[l], SoldTicketsSet(vT, l)) IN
       IF Len(chosenTickets) > 0
         THEN IF Len(InvalidChosen(vL[l], available, chosenTickets)) > 0
                THEN "Some chosen tickets are invalid or already sold"
              ELSE IF Len(chosenTickets) # quantity
                THEN "Quantity does not match chosen tickets count"
              ELSE "ok"
         ELSE IF Len(available) < quantity THEN "Not enough tickets available"
              ELSE "ok"

\* the numbers are taken from the end of the available list
TicketsToBuy_FromEnd(vL, vT, l, quantity, chosenTickets) ==
  IF Len(chosenTickets) > 0 THEN chosenTickets
  ELSE LET available == AvailableTickets(vL[l], SoldTicketsSet(vT, l)) IN
       SubSeq(available, Len(available) - quantity + 1, Len(available))

TicketsToBuy(vL, vT, l, quantity, chosenTickets) ==
  IF Len(chosenTickets) > 0 THEN chosenTickets
  ELSE SubSeq(AvailableTickets(vL[l], SoldTicketsSet(vT, l)), 1, quantity)

\* the debit is saved outside the session before the limit and availability
\* checks: a request refused by them has already paid
PurchaseStart_DebitBeforeChecks(p, u, l, quantity, chosenTickets) ==
  /\ Free(p)
  /\ budget.purchase > 0
  /\ budget' = [budget EXCEPT !.purchase = @ - 1]
  /\ LET verdict == PurchaseVerdict(lot, tps, now, l, u, quantity, chosenTickets) IN
     IF verdict \in {"Per-user limit exceeded", "Not enough tickets available"}
       THEN /\ Finish(p, "purchase", verdict)
            /\ users' = [users EXCEPT
                            ![u].balance = @ - lot[l].ticketPrice * quantity]
            /\ UNCHANGED <<ledger, lot, tps, results, wrecs>>
     ELSE IF verdict = "Some chosen tickets are invalid or already sold"
       THEN RejectInvalid(p, verdict,
              InvalidChosen(lot[l], AvailableTickets(lot[l], SoldTicketsSet(tps, l)),
                            chosenTickets))
     ELSE IF verdict # "ok"
       THEN RejectPurchase(p, verdict)
       ELSE /\ proc' = [proc EXCEPT ![p] =
                 [StartTxn(IdleProc) EXCEPT
                    !.pc = "p_write", !.op = "purchase", !.u = u, !.l = l,
                    !.qty = quantity,
                    !.tickets = TicketsToBuy(lot, tps, l, quantity, chosenTickets),
                    !.cost = lot[l].ticketPrice * quantity,
                    !.exist = ExistingPurchase(tps, l, u)]]
            /\ UNCHANGED db
            /\ Quiet
  /\ UNCHANGED <<now, approvalMode>>

\* POST /lottery/:id/purchase, up to the debit: every read is of the snapshot
\* taken by Lottery.findById.
PurchaseStart(p, u, l, quantity, chosenTickets) ==
  /\ Free(p)
  /\ budget.purchase > 0
  /\ budget' = [budget EXCEPT !.purchase = @ - 1]
  /\ LET verdict == PurchaseVerdict(lot, tps, now, l, u, quantity, chosenTickets) IN
     IF verdict = "Some chosen tickets are invalid or already sold"
       THEN RejectInvalid(p, verdict,
              InvalidChosen(lot[l], AvailableTickets(lot[l], SoldTicketsSet(tps, l)),
                            chosenTickets))
     ELSE IF verdict # "ok"
       THEN RejectPurchase(p, verdict)
       ELSE /\ proc' = [proc EXCEPT ![p] =
                 [StartTxn(IdleProc) EXCEPT
                    !.pc = "p_write", !.op = "purchase", !.u = u, !.l = l,
                    !.qty = quantity,
                    !.tickets = TicketsToBuy(lot, tps, l, quantity, chosenTickets),
                    !.cost = lot[l].ticketPrice * quantity,
                    !.exist = ExistingPurchase(tps, l, u)]]
            /\ UNCHANGED db
            /\ Quiet
  /\ UNCHANGED <<now, approvalMode>>

TicketPurchaseDoc(l, u, ticketNumbers, qty, price, total) ==
  [lotteryId |-> l, userId |-> u, ticketNumbers |-> ticketNumbers,
   quantity |-> qty, perTicketPrice |-> price, totalPrice |-> total]

\* existingPurchase.save / newPurchase.save
UpsertPurchase(pr) ==
  IF pr.exist # NoTp
    THEN [pr EXCEPT !.vTps[pr.exist].ticketNumbers = @ \o pr.tickets,
                    !.vTps[pr.exist].quantity = @ + pr.qty,
                    !.vTps[pr.exist].totalPrice = @ + pr.cost,
                    !.vTps[pr.exist].perTicketPrice = pr.vLot[pr.l].ticketPrice,
                    !.lockT = @ \cup {pr.exist}]
    ELSE [pr EXCEPT !.nTps = Append(@,
             TicketPurchaseDoc(pr.l, pr.u, pr.tickets, pr.qty,
                               pr.vLot[pr.l].ticketPrice, pr.cost))]

\* the counter is moved by one per purchase, whatever its quantity
BumpTicketsSold_ByOne(pr) ==
  [pr EXCEPT !.vLot[pr.l].ticketsSold = @ + 1, !.lockL = @ \cup {pr.l}]

\* lottery.ticketsSold += qty; lottery.save
BumpTicketsSold(pr) ==
  [pr EXCEPT !.vLot[pr.l].ticketsSold = @ + pr.qty, !.lockL = @ \cup {pr.l}]

\* no write of the purchase ever conflicts, as if the route ran outside any
\* transaction
PurchaseConflict_None(p) == FALSE

\* only the buyer's documents are looked at: the lottery is written blindly
PurchaseConflict_BuyerOnly(p) ==
  \/ WriteConflictU(p, proc[p].u)
  \/ proc[p].exist # NoTp /\ WriteConflictT(p, proc[p].exist)

\* The documents the purchase writes: the buyer, the buyer's TicketPurchase
\* when there is one, the lottery.
PurchaseConflict(p) ==
  \/ WriteConflictU(p, proc[p].u)
  \/ proc[p].exist # NoTp /\ WriteConflictT(p, proc[p].exist)
  \/ WriteConflictL(p, proc[p].l)

\* the error of the debit is swallowed: the purchase goes on without it
PurchaseWrite_DebitErrorSwallowed(p) ==
  /\ proc[p].pc = "p_write"
  /\ IF PurchaseConflict(p) THEN AbortTxn(p, "purchase", "WriteConflict")
     ELSE /\ proc' = [proc EXCEPT ![p] =
                [BumpTicketsSold(UpsertPurchase(proc[p])) EXCEPT !.pc = "p_commit"]]
          /\ UNCHANGED db
          /\ Quiet
  /\ UNCHANGED <<now, budget, approvalMode>>

\* updateWallet commits the session it was given: the debit is visible before
\* the route commits
PurchaseWrite_DebitCommitsSession(p) ==
  /\ proc[p].pc = "p_write"
  /\ LET err == UpdateWalletError(proc[p].vUsers, proc[p].u, -proc[p].cost) IN
     IF err # "ok" THEN AbortTxn(p, "purchase", err)
     ELSE IF PurchaseConflict(p) THEN AbortTxn(p, "purchase", "WriteConflict")
     ELSE /\ proc' = [proc EXCEPT ![p] =
                [BumpTicketsSold(UpsertPurchase(
                   UpdateWalletWrite(proc[p], proc[p].u, -proc[p].cost,
                                     <<"purchase", proc[p].l>>)))
                   EXCEPT !.pc = "p_commit"]]
          /\ users' = [users EXCEPT ![proc[p].u].balance = @ - proc[p].cost]
          /\ ledger' = Append(ledger,
                         TransactionDoc(proc[p].u, -proc[p].cost,
                                        users[proc[p].u].balance - proc[p].cost,
                                        <<"purchase", proc[p].l>>))
          /\ UNCHANGED <<lot, tps, results, wrecs>>
          /\ Quiet
  /\ UNCHANGED <<now, budget, approvalMode>>

\* updateWallet(req.user._id, -totalCost, ..., session), the upsert of the
\* TicketPurchase and the save of the lottery, inside the session
PurchaseWrite(p) ==
  /\ proc[p].pc = "p_write"
  /\ LET err == UpdateWalletError(proc[p].vUsers, proc[p].u, -proc[p].cost) IN
     IF err # "ok" THEN AbortTxn(p, "purchase", err)
     ELSE IF PurchaseConflict(p) THEN AbortTxn(p, "purchase", "WriteConflict")
     ELSE /\ proc' = [proc EXCEPT ![p] =
                [BumpTicketsSold(UpsertPurchase(
                   UpdateWalletWrite(proc[p], proc[p].u, -proc[p].cost,
                                     <<"purchase", proc[p].l>>)))
                   EXCEPT !.pc = "p_commit"]]
          /\ UNCHANGED db
          /\ Quiet
  /\ UNCHANGED <<now, budget, approvalMode>>

PurchaseCommit(p) ==
  /\ proc[p].pc = "p_commit"
  /\ CommitTxn(p)
  /\ proc' = [MarkStale(proc, p, proc[p].lockU, proc[p].lockL, proc[p].lockT)
                EXCEPT ![p] = IdleProc]
  /\ last' = Resp("purchase", "201")
  /\ UNCHANGED <<now, budget, wrecs, approvalMode>>

\* ---------------------------------------------------------------- draw engine
RECURSIVE AllTickets(_, _, _)
\* purchases.forEach(p => p.ticketNumbers.forEach(num => allTickets.push(...)))
AllTickets(vT, l, i) ==
  IF i > Len(vT) THEN <<>>
  ELSE (IF vT[i].lotteryId = l
          THEN [k \in 1..Len(vT[i].ticketNumbers) |->
                  [ticketNumber |-> vT[i].ticketNumbers[k], userId |-> vT[i].userId]]
          ELSE <<>>) \o AllTickets(vT, l, i + 1)

\* allTickets.sort(() => Math.random() - 0.5): some rearrangement of the list
Shuffles(s) ==
  {[i \in 1..Len(s) |-> s[f[i]]] :
     f \in {g \in [1..Len(s) -> 1..Len(s)] :
              \A a, b \in 1..Len(s) : a # b => g[a] # g[b]}}

Min(a, b) == IF a < b THEN a ELSE b
Max(a, b) == IF a > b THEN a ELSE b

RECURSIVE PickWinners_BandRank(_, _, _, _)
\* the rank is read from the band (fromRank + i) instead of counted
PickWinners_BandRank(shuffled, ws, b, cur) ==
  IF b > Len(ws) THEN <<>>
  ELSE LET groupSize == ws[b].toRank - ws[b].fromRank + 1
           n == Max(0, Min(groupSize, Len(shuffled) - cur))
       IN [i \in 1..n |->
             [rank |-> ws[b].fromRank + i - 1,
              rankRange |-> <<ws[b].fromRank, ws[b].toRank>>,
              userId |-> shuffled[cur + i].userId,
              ticketNumber |-> shuffled[cur + i].ticketNumber,
              prizeAmount |-> ws[b].prizeAmount]]
          \o PickWinners_BandRank(shuffled, ws, b + 1, cur + n)

RECURSIVE PickWinners(_, _, _, _)
\* the walk over winnerStructure: band b, currentIndex cur (rankCounter = cur + 1)
PickWinners(shuffled, ws, b, cur) ==
  IF b > Len(ws) THEN <<>>
  ELSE LET groupSize == ws[b].toRank - ws[b].fromRank + 1
           n == Max(0, Min(groupSize, Len(shuffled) - cur))
       IN [i \in 1..n |->
             [rank |-> cur + i,
              rankRange |-> <<ws[b].fromRank, ws[b].toRank>>,
              userId |-> shuffled[cur + i].userId,
              ticketNumber |-> shuffled[cur + i].ticketNumber,
              prizeAmount |-> ws[b].prizeAmount]]
          \o PickWinners(shuffled, ws, b + 1, cur + n)

\* resultAnnounced is not looked at
DrawVerdict_NoAnnouncedCheck(vL, vT, t, l, force) ==
  IF ~vL[l].exists THEN "Lottery not found"
  ELSE LET endedByTime == t >= vL[l].endDatetime
           endedByTickets == vL[l].flags.isEnded
                               /\ vL[l].ticketsSold >= vL[l].maxTickets
           reachedDrawTime == t >= vL[l].drawDatetime
       IN IF ~force /\ ~reachedDrawTime THEN "Lottery draw time not reached yet"
          ELSE IF ~endedByTime /\ ~endedByTickets /\ ~force
            THEN "Lottery not ended yet"
          ELSE IF Len(AllTickets(vT, l, 1)) = 0
            THEN "No tickets sold for this lottery"
          ELSE "ok"

\* drawDatetime is not compared with the clock
DrawVerdict_NoDrawTimeCheck(vL, vT, t, l, force) ==
  IF ~vL[l].exists THEN "Lottery not found"
  ELSE IF vL[l].flags.resultAnnounced THEN "Result already announced"
  ELSE LET endedByTime == t >= vL[l].endDatetime
           endedByTickets == vL[l].flags.isEnded
                               /\ vL[l].ticketsSold >= vL[l].maxTickets
       IN IF ~endedByTime /\ ~endedByTickets /\ ~force
            THEN "Lottery not ended yet"
          ELSE IF Len(AllTickets(vT, l, 1)) = 0
            THEN "No tickets sold for this lottery"
          ELSE "ok"

\* drawLottery, the checks before the shuffle: the error thrown, or "ok".
\* the ticket list is not tested for emptiness
DrawVerdict_NoTicketCheck(vL, vT, t, l, force) ==
  IF ~vL[l].exists THEN "Lottery not found"
  ELSE IF vL[l].flags.resultAnnounced THEN "Result already announced"
  ELSE LET endedByTime == t >= vL[l].endDatetime
           endedByTickets == vL[l].flags.isEnded
                               /\ vL[l].ticketsSold >= vL[l].maxTickets
           reachedDrawTime == t >= vL[l].drawDatetime
       IN IF ~force /\ ~reachedDrawTime THEN "Lottery draw time not reached yet"
          ELSE IF ~endedByTime /\ ~endedByTickets /\ ~force
            THEN "Lottery not ended yet"
          ELSE "ok"

DrawVerdict(vL, vT, t, l, force) ==
  IF ~vL[l].exists THEN "Lottery not found"
  ELSE IF vL[l].flags.resultAnnounced THEN "Result already announced"
  ELSE LET endedByTime == t >= vL[l].endDatetime
           endedByTickets == vL[l].flags.isEnded
                               /\ vL[l].ticketsSold >= vL[l].maxTickets
           reachedDrawTime == t >= vL[l].drawDatetime
       IN IF ~force /\ ~reachedDrawTime THEN "Lottery draw time not reached yet"
          ELSE IF ~endedByTime /\ ~endedByTickets /\ ~force
            THEN "Lottery not ended yet"
          ELSE IF Len(AllTickets(vT, l, 1)) = 0
            THEN "No tickets sold for this lottery"
          ELSE "ok"

\* the loop has no try/catch of its own: the error of one draw ends the callback
DrawFailed_EndsCallback(p, resp) ==
  /\ UNCHANGED db
  /\ last' = Resp("draw", resp)
  /\ proc' = [proc EXCEPT ![p] = IdleProc]

\* The caller's handling of an error thrown by drawLottery: the route answers
\* 500, the cron callback logs it and goes on with the next lottery.
DrawFailed(p, resp) ==
  /\ UNCHANGED db
  /\ last' = Resp("draw", resp)
  /\ proc' = [proc EXCEPT ![p] =
       IF proc[p].op = "sweep"
         THEN [IdleProc EXCEPT !.pc = "s_loop", !.op = "sweep",
                               !.snow = proc[p].snow, !.todo = Tail(proc[p].todo)]
         ELSE IdleProc]

\* drawLottery(lotteryId, session, force), up to the first credit
DrawBegin(p, l, force, own) ==
  LET verdict == DrawVerdict(lot, tps, now, l, force) IN
  IF verdict # "ok"
    THEN DrawFailed(p, verdict)
    ELSE /\ \E shuffled \in Shuffles(AllTickets(tps, l, 1)) :
              proc' = [proc EXCEPT ![p] =
                [StartTxn(proc[p]) EXCEPT
                   !.pc = "d_write", !.l = l, !.force = force, !.own = own,
                   !.winners = PickWinners(shuffled, lot[l].winnerStructure, 1, 0)]]
         /\ UNCHANGED db
         /\ Quiet

\* POST /lottery/:id/draw
AdminDrawStart(p, l) ==
  /\ Free(p)
  /\ budget.draw > 0
  /\ budget' = [budget EXCEPT !.draw = @ - 1]
  /\ DrawBegin(p, l, TRUE, FALSE)
  /\ UNCHANGED <<now, approvalMode>>

\* drawLottery(lotteryId): the service called with its defaults, no session of
\* the caller and force = false
ServiceDrawStart(p, l) ==
  /\ Free(p)
  /\ budget.draw > 0
  /\ budget' = [budget EXCEPT !.draw = @ - 1]
  /\ DrawBegin(p, l, FALSE, TRUE)
  /\ UNCHANGED <<now, approvalMode>>

RECURSIVE CreditWinners_OffByOne(_, _, _)
\* the loop stops one winner early
CreditWinners_OffByOne(p, pr, i) ==
  IF i >= Len(pr.winners) THEN [err |-> "ok", pr |-> pr]
  ELSE LET w == pr.winners[i]
           err == UpdateWalletError(pr.vUsers, w.userId, w.prizeAmount)
       IN IF err # "ok" THEN [err |-> err, pr |-> pr]
          ELSE IF WriteConflictU(p, w.userId) THEN [err |-> "WriteConflict", pr |-> pr]
          ELSE CreditWinners_OffByOne(p,
                 UpdateWalletWrite(pr, w.userId, w.prizeAmount,
                                   <<"prize", pr.l, w.ticketNumber>>),
                 i + 1)

RECURSIVE CreditWinners(_, _, _)
\* The winners loop from winner i on: updateWallet(winner, prizeAmount, ...,
\* session) for each; the first error thrown ends it.
CreditWinners(p, pr, i) ==
  IF i > Len(pr.winners) THEN [err |-> "ok", pr |-> pr]
  ELSE LET w == pr.winners[i]
           err == UpdateWalletError(pr.vUsers, w.userId, w.prizeAmount)
       IN IF err # "ok" THEN [err |-> err, pr |-> pr]
          ELSE IF WriteConflictU(p, w.userId) THEN [err |-> "WriteConflict", pr |-> pr]
          ELSE CreditWinners(p,
                 UpdateWalletWrite(pr, w.userId, w.prizeAmount,
                                   <<"prize", pr.l, w.ticketNumber>>),
                 i + 1)

LotteryResultDoc(l, winners) == [lotteryId |-> l, winners |-> winners]

\* result.save; lottery.flags.resultAnnounced = true; lottery.save
SaveResult(pr) ==
  [pr EXCEPT !.nResults = Append(@, LotteryResultDoc(pr.l, pr.winners)),
             !.vLot[pr.l].flags.resultAnnounced = TRUE,
             !.lockL = @ \cup {pr.l}]

\* the error of a credit is swallowed: the draw goes on with the credits made
DrawWrite_CreditErrorSwallowed(p) ==
  /\ proc[p].pc = "d_write"
  /\ LET credited == CreditWinners(p, proc[p], 1) IN
     IF WriteConflictL(p, proc[p].l) THEN DrawFailed(p, "WriteConflict")
     ELSE /\ proc' = [proc EXCEPT ![p] =
                [SaveResult(credited.pr) EXCEPT !.pc = "d_commit"]]
          /\ UNCHANGED db
          /\ Quiet
  /\ UNCHANGED <<now, budget, approvalMode>>

\* drawLottery from the first credit to the save of the lottery
DrawWrite(p) ==
  /\ proc[p].pc = "d_write"
  /\ LET credited == CreditWinners(p, proc[p], 1) IN
     IF credited.err # "ok" THEN DrawFailed(p, credited.err)
     ELSE IF WriteConflictL(p, proc[p].l) THEN DrawFailed(p, "WriteConflict")
     ELSE /\ proc' = [proc EXCEPT ![p] =
                [SaveResult(credited.pr) EXCEPT !.pc = "d_commit"]]
          /\ UNCHANGED db
          /\ Quiet
  /\ UNCHANGED <<now, budget, approvalMode>>

\* session.commitTransaction(), by drawLottery for its own session and by the
\* route for the route's
DrawCommit(p) ==
  /\ proc[p].pc = "d_commit"
  /\ CommitTxn(p)
  /\ proc' = [MarkStale(proc, p, proc[p].lockU, proc[p].lockL, proc[p].lockT)
                EXCEPT ![p] =
       IF proc[p].op = "sweep"
         THEN [IdleProc EXCEPT !.pc = "s_announce", !.op = "sweep",
                               !.snow = proc[p].snow, !.todo = proc[p].todo]
         ELSE IdleProc]
  /\ last' = Resp("draw", "201")
  /\ UNCHANGED <<now, budget, wrecs, approvalMode>>

\* ---------------------------------------------------------------- lifecycle sweep
LotteryOrder == <<"L1", "L2">>

\* Lottery.updateMany(filter, {$set: ...}) outside any transaction: it waits
\* for the transactions that hold a matching document. set maps the matching
\* lotteries to their documents after the $set.
UpdateMany(p, set, nextPc) ==
  /\ \A l \in DOMAIN set : ~HeldL(p, l)
  /\ lot' = [l \in LotteryIds |-> IF l \in DOMAIN set THEN set[l] ELSE lot[l]]
  /\ proc' = [MarkStale(proc, p, {}, DOMAIN set, {}) EXCEPT ![p].pc = nextPc]
  /\ UNCHANGED <<users, ledger, tps, results, wrecs>>
  /\ Quiet

\* the cron callback starts: now = new Date(); step 1, mark UPCOMING
SweepStart(p) ==
  /\ Free(p)
  /\ budget.sweep > 0
  /\ budget' = [budget EXCEPT !.sweep = @ - 1]
  /\ LET hit == {l \in LotteryIds :
                   /\ lot[l].exists
                   /\ ~lot[l].flags.isUpcoming /\ ~lot[l].flags.isActive
                   /\ ~lot[l].flags.isEnded
                   /\ lot[l].startDatetime > now}
     IN /\ \A l \in hit : ~HeldL(p, l)
        /\ lot' = [l \in LotteryIds |->
                     IF l \in hit THEN [lot[l] EXCEPT !.flags.isUpcoming = TRUE]
                     ELSE lot[l]]
        /\ proc' = [MarkStale(proc, p, {}, hit, {}) EXCEPT ![p] =
             [IdleProc EXCEPT !.pc = "s_active", !.op = "sweep", !.snow = now]]
  /\ UNCHANGED <<users, ledger, tps, results, wrecs, now, approvalMode>>
  /\ Quiet

\* the filter does not look at flags.isEnded
SweepActive_NoEndedTest(p) ==
  /\ proc[p].pc = "s_active"
  /\ LET hit == {l \in LotteryIds :
                   /\ lot[l].exists
                   /\ ~lot[l].flags.isActive
                   /\ lot[l].startDatetime <= proc[p].snow
                   /\ lot[l].endDatetime > proc[p].snow}
     IN UpdateMany(p, [l \in hit |-> [lot[l] EXCEPT !.flags.isActive = TRUE,
                                                    !.flags.isUpcoming = FALSE]],
                   "s_ended")
  /\ UNCHANGED <<now, budget, approvalMode>>

\* the $set of step 2 does not clear flags.isUpcoming
SweepActive_KeepsUpcoming(p) ==
  /\ proc[p].pc = "s_active"
  /\ LET hit == {l \in LotteryIds :
                   /\ lot[l].exists
                   /\ ~lot[l].flags.isActive /\ ~lot[l].flags.isEnded
                   /\ lot[l].startDatetime <= proc[p].snow
                   /\ lot[l].endDatetime > proc[p].snow}
     IN UpdateMany(p, [l \in hit |-> [lot[l] EXCEPT !.flags.isActive = TRUE]],
                   "s_ended")
  /\ UNCHANGED <<now, budget, approvalMode>>

\* step 2, mark ACTIVE
SweepActive(p) ==
  /\ proc[p].pc = "s_active"
  /\ LET hit == {l \in LotteryIds :
                   /\ lot[l].exists
                   /\ ~lot[l].flags.isActive /\ ~lot[l].flags.isEnded
                   /\ lot[l].startDatetime <= proc[p].snow
                   /\ lot[l].endDatetime > proc[p].snow}
     IN UpdateMany(p, [l \in hit |-> [lot[l] EXCEPT !.flags.isActive = TRUE,
                                                    !.flags.isUpcoming = FALSE]],
                   "s_ended")
  /\ UNCHANGED <<now, budget, approvalMode>>

\* the filter has no $or branch for the tickets: only the clock ends a lottery
SweepEnded_TimeOnly(p) ==
  /\ proc[p].pc = "s_ended"
  /\ LET hit == {l \in LotteryIds :
                   /\ lot[l].exists
                   /\ ~lot[l].flags.isEnded
                   /\ lot[l].endDatetime <= proc[p].snow}
     IN UpdateMany(p, [l \in hit |-> [lot[l] EXCEPT !.flags.isEnded = TRUE,
                                                    !.flags.isActive = FALSE,
                                                    !.flags.isUpcoming = FALSE]],
                   "s_find")
  /\ UNCHANGED <<now, budget, approvalMode>>

\* step 3, mark ENDED
SweepEnded(p) ==
  /\ proc[p].pc = "s_ended"
  /\ LET hit == {l \in LotteryIds :
                   /\ lot[l].exists
                   /\ ~lot[l].flags.isEnded
                   /\ (lot[l].endDatetime <= proc[p].snow
                         \/ lot[l].ticketsSold >= lot[l].maxTickets)}
     IN UpdateMany(p, [l \in hit |-> [lot[l] EXCEPT !.flags.isEnded = TRUE,
                                                    !.flags.isActive = FALSE,
                                                    !.flags.isUpcoming = FALSE]],
                   "s_find")
  /\ UNCHANGED <<now, budget, approvalMode>>

\* step 4, Lottery.find({resultAnnounced: false, isEnded: true, drawDatetime <= now})
LotteriesToDraw(t) ==
  LET due(l) == lot[l].exists /\ ~lot[l].flags.resultAnnounced
                  /\ lot[l].flags.isEnded /\ lot[l].drawDatetime <= t
      found == SelectSeq(LotteryOrder, due)
  IN [i \in 1..Len(found) |->
        [id |-> found[i], ticketsSold |-> lot[found[i]].ticketsSold]]

SweepFind(p) ==
  /\ proc[p].pc = "s_find"
  /\ proc' = [proc EXCEPT ![p].pc = "s_loop",
                          ![p].todo = LotteriesToDraw(proc[p].snow)]
  /\ UNCHANGED <<db, now, budget, approvalMode>>
  /\ Quiet

\* Lottery.updateOne({_id}, {$set: {"flags.resultAnnounced": true}})
MarkAnnounced(p, l) ==
  /\ ~HeldL(p, l)
  /\ lot' = [lot EXCEPT ![l].flags.resultAnnounced = TRUE]
  /\ proc' = [MarkStale(proc, p, {},
                         IF lot[l].flags.resultAnnounced THEN {} ELSE {l}, {})
                EXCEPT ![p].pc = "s_loop", ![p].todo = Tail(proc[p].todo)]
  /\ UNCHANGED <<users, ledger, tps, results, wrecs>>
  /\ Quiet

\* the test of ticketsSold is left out: every lottery found is drawn
SweepSkipDraw_Draws(p) ==
  /\ proc[p].pc = "s_loop"
  /\ proc[p].todo # <<>>
  /\ Head(proc[p].todo).ticketsSold = 0
  /\ DrawBegin(p, Head(proc[p].todo).id, FALSE, TRUE)
  /\ UNCHANGED <<now, budget, approvalMode>>

\* the loop over lotteriesToDraw: no tickets sold, mark announced without a draw
SweepSkipDraw(p) ==
  /\ proc[p].pc = "s_loop"
  /\ proc[p].todo # <<>>
  /\ Head(proc[p].todo).ticketsSold = 0
  /\ MarkAnnounced(p, Head(proc[p].todo).id)
  /\ UNCHANGED <<now, budget, approvalMode>>

\* the loop over lotteriesToDraw: await drawLottery(lottery._id)
SweepDraw(p) ==
  /\ proc[p].pc = "s_loop"
  /\ proc[p].todo # <<>>
  /\ Head(proc[p].todo).ticketsSold # 0
  /\ DrawBegin(p, Head(proc[p].todo).id, FALSE, TRUE)
  /\ UNCHANGED <<now, budget, approvalMode>>

\* after drawLottery returned: the callback's own updateOne
SweepAnnounce(p) ==
  /\ proc[p].pc = "s_announce"
  /\ MarkAnnounced(p, Head(proc[p].todo).id)
  /\ UNCHANGED <<now, budget, approvalMode>>

SweepDone(p) ==
  /\ proc[p].pc = "s_loop"
  /\ proc[p].todo = <<>>
  /\ proc' = [proc EXCEPT ![p] = IdleProc]
  /\ UNCHANGED <<db, now, budget, approvalMode>>
  /\ Quiet


\* cron.schedule("* * * * *", ...): the scheduler fires again, here once the
\* callback of the previous minute has returned.
CronSchedule ==
  /\ budget.sweep = 0
  /\ \A p \in Crons : proc[p].pc = "idle"
  /\ budget' = [budget EXCEPT !.sweep = 1]
  /\ UNCHANGED <<db, now, approvalMode, proc>>
  /\ Quiet

\* ---------------------------------------------------------------- clock
Tick ==
  /\ \E l \in LotteryIds : lot[l].exists /\ now < lot[l].drawDatetime
  /\ now' = now + 1
  /\ UNCHANGED <<db, approvalMode, proc, budget>>
  /\ Quiet

\* ---------------------------------------------------------------- inputs
WinnerStructure ==
  <<[fromRank |-> 1, toRank |-> 1, prizeAmount |-> 4],
    [fromRank |-> 2, toRank |-> 3, prizeAmount |-> 1]>>
SinglePrize == <<[fromRank |-> 1, toRank |-> 1, prizeAmount |-> 4]>>

\* bands whose ranks leave a gap: the ranks given out are still 1, 2, 3
GappedBands ==
  <<[fromRank |-> 1, toRank |-> 1, prizeAmount |-> 3],
    [fromRank |-> 5, toRank |-> 6, prizeAmount |-> 1]>>
\* a second band whose prize updateWallet refuses
ZeroPrizeBand ==
  <<[fromRank |-> 1, toRank |-> 1, prizeAmount |-> 4],
    [fromRank |-> 2, toRank |-> 2, prizeAmount |-> 0]>>
BandStructures == {WinnerStructure, SinglePrize, GappedBands, ZeroPrizeBand}

\* chosenTickets: none, one free number, a number repeated, two numbers, a
\* number beyond maxTickets, a number of another prefix
ChosenLists ==
  {<<>>, <<TicketNum("PL", 2)>>, <<TicketNum("PL", 1), TicketNum("PL", 1)>>,
   <<TicketNum("PL", 2), TicketNum("PL", 3)>>, <<TicketNum("PL", 4)>>,
   <<TicketNum("XX", 1)>>}
Quantities == 0..2
Amounts == {-4, 0, 3}
RequestAmounts == {0, 4}

Budget(np, nd, ns, nw) ==
  [purchase |-> np, draw |-> nd, sweep |-> ns, wallet |-> nw]

\* walletBalance of a registered user before any request of the run
OpeningBalance(u) == IF u = "u1" THEN 6 ELSE 4

\* A lottery created by POST /create-lottery (ticket price 2, three tickets,
\* two per user, sale from 1 to 2, draw at 3), two registered users, nothing
\* sold.
InitWith(b, modes, t0, structures) ==
  /\ now = t0
  /\ users = [u \in Accounts |->
                [balance |-> OpeningBalance(u), role |-> "user"]]
  /\ ledger = <<>>
  /\ \E ws \in structures :
       lot = [l \in LotteryIds |->
                IF l = "L1" THEN LotteryDoc("PL", 2, 3, 2, ws, 1, 2, 3)
                ELSE NoLottery]
  /\ tps = <<>>
  /\ results = <<>>
  /\ wrecs = <<>>
  /\ approvalMode \in modes
  /\ proc = [p \in Pids |-> IdleProc]
  /\ budget = b
  /\ last = NoResp

Purchase ==
  \E p \in Reqs :
    \/ \E u \in Accounts, l \in LotteryIds \cup {"not-a-uuid"}, q \in Quantities,
          c \in ChosenLists : PurchaseStart(p, u, l, q, c)
    \/ PurchaseWrite(p)
    \/ PurchaseCommit(p)

\* the :id of a purchase request: a lottery, an id no lottery has, not a UUID
PurchaseLotteryIds == LotteryIds \cup {"not-a-uuid"}

\* purchases of any quantity on any id, the numbers left to the server
PurchaseAnyLottery ==
  \E p \in Reqs :
    \/ \E u \in Accounts, l \in PurchaseLotteryIds, q \in Quantities :
         PurchaseStart(p, u, l, q, <<>>)
    \/ PurchaseWrite(p)
    \/ PurchaseCommit(p)

\* purchases that leave the choice of the numbers to the server
PurchaseAuto ==
  \E p \in Reqs :
    \/ \E u \in Accounts, q \in 1..2 : PurchaseStart(p, u, "L1", q, <<>>)
    \/ PurchaseWrite(p)
    \/ PurchaseCommit(p)

\* purchases on either lottery, the numbers left to the server
PurchaseEither ==
  \E p \in Reqs :
    \/ \E u \in Accounts, l \in LotteryIds, q \in 1..2 : PurchaseStart(p, u, l, q, <<>>)
    \/ PurchaseWrite(p)
    \/ PurchaseCommit(p)

Wallet ==
  \E p \in Reqs :
    \/ \E u \in AccountIds, a \in Amounts : WalletStart(p, u, a)
    \/ WalletSave(p)
    \/ WalletCommit(p)

AdminDraw ==
  \E p \in Reqs :
    \/ \E l \in LotteryIds : AdminDrawStart(p, l)

ServiceDraw ==
  \E p \in Reqs :
    \/ \E l \in LotteryIds : ServiceDrawStart(p, l)

Draw == \E p \in Pids : DrawWrite(p) \/ DrawCommit(p)

EditUser == \E u \in Accounts : EditUserRole(u)

Sweep ==
  \E p \in Crons :
    \/ SweepStart(p) \/ SweepActive(p) \/ SweepEnded(p)
    \/ SweepFind(p) \/ SweepSkipDraw(p) \/ SweepDraw(p) \/ SweepAnnounce(p)
    \/ SweepDone(p)

WalletRoutes ==
  \E p \in Reqs :
    \/ \E u \in Accounts, a \in RequestAmounts : TopUpStart(p, u, a)
    \/ TopUpSave(p) \/ TopUpRecord(p)
    \/ \E u \in Accounts, a \in RequestAmounts : WithdrawStart(p, u, a)
    \/ WithdrawSave(p) \/ WithdrawRecord(p)
    \/ \E r \in 1..MaxRecords, k \in ModerationKinds : ModerateStart(p, r, k)
    \/ ModerateReadUser(p) \/ ModerateSaveUser(p) \/ ModerateSaveRecord(p)

\* the two routes that process a withdrawal request
WithdrawModerationKinds == {"approve-withdraw", "reject-withdraw"}

\* withdrawal requests created one at a time, and the administrators'
\* approvals and rejections of them
WithdrawRequests ==
  \/ \E u \in Accounts, a \in RequestAmounts : WithdrawStart("r1", u, a)
  \/ \E p \in Reqs :
       \/ WithdrawSave(p) \/ WithdrawRecord(p)
       \/ \E r \in 1..MaxRecords, k \in WithdrawModerationKinds :
            ModerateStart(p, r, k)
       \/ ModerateReadUser(p) \/ ModerateSaveUser(p) \/ ModerateSaveRecord(p)

\* the two routes that process a top-up request
TopUpModerationKinds == {"approve-topup", "reject-topup"}

\* top-up requests created one at a time in manual approval mode, and the
\* administrators' approvals and rejections of them
TopUpRequests ==
  \/ \E u \in Accounts, a \in RequestAmounts : TopUpStart("r1", u, a)
  \/ \E p \in Reqs :
       \/ \E r \in 1..MaxRecords, k \in TopUpModerationKinds : ModerateStart(p, r, k)
       \/ ModerateReadUser(p) \/ ModerateSaveUser(p) \/ ModerateSaveRecord(p)

\* ---------------------------------------------------------------- specifications
\* Sale, draw and lifecycle sweep of one lottery, from the opening of the sale.
Init ==
  InitWith(Budget(MaxPurchases, MaxAdminDraws, MaxSweeps, 0), {"manual"}, 1,
           {WinnerStructure, SinglePrize})
Next == Tick \/ PurchaseAuto \/ AdminDraw \/ Draw \/ Sweep
Spec == Init /\ [][Next]_vars

\* The purchase route alone, with every kind of request body.
InitAlloc ==
  InitWith(Budget(MaxSalePurchases, 0, 0, 0), {"manual"}, 0, {WinnerStructure})
NextAlloc == Tick \/ Purchase
SpecAlloc == InitAlloc /\ [][NextAlloc]_vars

\* Everything that moves a wallet balance during the sale.
InitLedger ==
  InitWith(Budget(MaxLedgerPurchases, 0, 0, MaxWalletOps), {"auto", "manual"}, 1,
           {WinnerStructure})
NextLedger == PurchaseAuto \/ Wallet \/ WalletRoutes
SpecLedger == InitLedger /\ [][NextLedger]_vars

\* The draw over every shape of winnerStructure, asked for by the
\* administrator, by a caller of the service and by the cron callback.
InitBands ==
  InitWith(Budget(MaxBandPurchases, MaxBandDraws, MaxBandSweeps, 0), {"manual"}, 1,
           BandStructures)
NextBands == Tick \/ PurchaseAuto \/ AdminDraw \/ ServiceDraw \/ Draw \/ Sweep
SpecBands == InitBands /\ [][NextBands]_vars

\* The draw when a credit can fail: a band with a prize updateWallet refuses,
\* a winner whose role was changed after the purchase.
InitCredit ==
  InitWith(Budget(MaxBandPurchases, MaxBandDraws, MaxBandSweeps, 0), {"manual"}, 1,
           {WinnerStructure, ZeroPrizeBand})
NextCredit == Tick \/ PurchaseAuto \/ EditUser \/ AdminDraw \/ Draw \/ Sweep
SpecCredit == InitCredit /\ [][NextCredit]_vars

\* The life of one lottery from before the opening of its sale: the clock, the
\* cron callback, purchases and draws.
InitLife ==
  InitWith(Budget(MaxLifePurchases, MaxLifeDraws, MaxLifeSweeps, 0), {"manual"}, 0,
           {SinglePrize})
NextLife == Tick \/ PurchaseAuto \/ AdminDraw \/ Draw \/ Sweep
SpecLife == InitLife /\ [][NextLife]_vars

\* The purchase route with every quantity and lottery id, next to a cron
\* callback that may or may not have brought the stored flags up to date.
InitSale ==
  InitWith(Budget(MaxSalePurchases, 0, MaxFlagSweeps, 0), {"manual"}, 0,
           {WinnerStructure})
NextSale == Tick \/ PurchaseAnyLottery \/ Sweep \/ Draw
SpecSale == InitSale /\ [][NextSale]_vars

\* updateWallet and drawLottery with the caller's session (purchase route,
\* administrator's draw) and with their own (direct calls).
InitScope ==
  InitWith(Budget(MaxScopePurchases, MaxScopeDraws, 0, MaxScopeWalletOps), {"manual"},
           1, {WinnerStructure})
NextScope == Tick \/ PurchaseAuto \/ Wallet \/ AdminDraw \/ ServiceDraw \/ Draw
SpecScope == InitScope /\ [][NextScope]_vars

\* Withdrawal requests in manual approval mode and their moderation, nothing
\* else moving the balances.
InitRequests ==
  InitWith(Budget(0, 0, 0, MaxRequestOps), {"manual"}, 1, {WinnerStructure})
NextRequests == WithdrawRequests
SpecRequests == InitRequests /\ [][NextRequests]_vars

\* The purchase route with every kind of request body, followed by the
\* administrator's draw.
InitChosen ==
  InitWith(Budget(MaxChosenPurchases, MaxChosenDraws, 0, 0), {"manual"}, 1,
           {WinnerStructure})
NextChosen == Tick \/ Purchase \/ AdminDraw \/ Draw
SpecChosen == InitChosen /\ [][NextChosen]_vars

\* the steps of a purchase request once it is past its checks
PurchaseSteps == \E p \in Reqs : PurchaseWrite(p) \/ PurchaseCommit(p)

\* One lottery under a scheduler that never stops ticking: every minute a
\* callback runs to its end, and every handler that has started goes on.
InitLive ==
  InitWith(Budget(MaxLivePurchases, 0, 1, 0), {"manual"}, 1,
           {WinnerStructure, ZeroPrizeBand})
NextLive == Tick \/ PurchaseAuto \/ EditUser \/ Sweep \/ Draw \/ CronSchedule
SpecLive ==
  /\ InitLive /\ [][NextLive]_vars
  /\ WF_vars(Tick) /\ WF_vars(CronSchedule) /\ WF_vars(Sweep) /\ WF_vars(Draw)
  /\ WF_vars(PurchaseSteps)

\* Two lotteries with the same dates in one cron tick: the first with a band
\* whose prize updateWallet refuses, the second with a single prize.
InitTwo ==
  /\ now = 1
  /\ users = [u \in Accounts |->
                [balance |-> OpeningBalance(u), role |-> "user"]]
  /\ ledger = <<>>
  /\ lot = [l \in LotteryIds |->
              IF l = "L1" THEN LotteryDoc("PL", 2, 3, 2, ZeroPrizeBand, 1, 2, 3)
              ELSE LotteryDoc("QL", 2, 3, 2, SinglePrize, 1, 2, 3)]
  /\ tps = <<>>
  /\ results = <<>>
  /\ wrecs = <<>>
  /\ approvalMode = "manual"
  /\ proc = [p \in Pids |-> IdleProc]
  /\ budget = Budget(MaxTwoPurchases, MaxTwoDraws, MaxTwoSweeps, 0)
  /\ last = NoResp
NextTwo == Tick \/ PurchaseEither \/ AdminDraw \/ Sweep \/ Draw
SpecTwo == InitTwo /\ [][NextTwo]_vars

\* Top-up requests in manual approval mode and their moderation, nothing else
\* moving the balances.
InitModeration ==
  InitWith(Budget(0, 0, 0, MaxModerationOps), {"manual"}, 1, {WinnerStructure})
NextModeration == TopUpRequests
SpecModeration == InitModeration /\ [][NextModeration]_vars

\* ---------------------------------------------------------------- properties
\* every ticket number of the TicketPurchase records of lottery l, one entry
\* per occurrence
RECURSIVE HeldNumbers(_, _)
HeldNumbers(l, i) ==
  IF i > Len(tps) THEN <<>>
  ELSE (IF tps[i].lotteryId = l THEN tps[i].ticketNumbers ELSE <<>>)
         \o HeldNumbers(l, i + 1)

RECURSIVE SumSeq(_)
SumSeq(s) == IF s = <<>> THEN 0 ELSE Head(s) + SumSeq(Tail(s))

\* the quantity allocated to user u in lottery l, over all the records
AllocatedQty(l, u) ==
  LET mine(d) == d.lotteryId = l /\ d.userId = u
      recs == SelectSeq(tps, mine)
  IN SumSeq([i \in 1..Len(recs) |-> recs[i].quantity])

\* C1: in every reachable state, for every lottery, ticketsSold <= maxTickets,
\* whatever the purchases were (auto-assigned or with chosenTickets).
C1_TicketsSoldWithinMax ==
  \A l \in LotteryIds : lot[l].exists => lot[l].ticketsSold <= lot[l].maxTickets

\* C2: in every reachable state, every sold ticket number of a lottery is held
\* exactly once: not in two TicketPurchase records, not twice in one record.
C2_TicketHeldOnce ==
  \A l \in LotteryIds :
    \A i, j \in 1..Len(HeldNumbers(l, 1)) :
      i # j => HeldNumbers(l, 1)[i] # HeldNumbers(l, 1)[j]

SignedSum(u) ==
  LET mine(e) == e.user = u
      es == SelectSeq(ledger, mine)
  IN SumSeq([i \in 1..Len(es) |->
               IF es[i].type = "credit" THEN es[i].amount ELSE -es[i].amount])

\* C4: in every reachable state every account's wallet balance is >= 0,
\* whatever the interleaving of purchases, credits, withdrawals, top-ups and
\* moderation actions.
C4_BalanceNeverNegative == \A u \in Accounts : users[u].balance >= 0

\* C4, its case: a wallet was emptied and a further withdrawal has just been
\* refused.
C4_Witness ==
  /\ \E u \in Accounts : users[u].balance = 0
  /\ last = Resp("withdraw", "Insufficient balance")

\* C5: in every reachable state every account's balance equals its opening
\* balance plus the signed sum (credits minus debits) of its ledger entries.
C5_BalanceIsLedgerSum ==
  \A u \in Accounts : users[u].balance = OpeningBalance(u) + SignedSum(u)

\* C6: a wallet debit that exceeds the balance fails with INSUFFICIENT_FUNDS,
\* the balance is unchanged and no ledger entry is created; for updateWallet
\* called on its own and for the debit inside a purchase.
C6_OverdraftRefused ==
  [][/\ \A p \in Reqs, u \in Accounts, a \in Amounts :
          (a < 0 /\ users[u].balance + a < 0 /\ WalletStart(p, u, a))
          => /\ last' = Resp("wallet", "INSUFFICIENT_FUNDS")
             /\ users' = users
             /\ ledger' = ledger
             /\ proc'[p] = IdleProc
     /\ \A p \in Reqs :
          (/\ proc[p].pc = "p_write"
           /\ proc'[p].pc # "p_write"
           /\ proc[p].vUsers[proc[p].u].balance - proc[p].cost < 0)
          => /\ last' = Resp("purchase", "INSUFFICIENT_FUNDS")
             /\ users' = users
             /\ ledger' = ledger]_vars

\* C6, its case: updateWallet has just refused a debit larger than the
\* balance that an earlier debit had left.
C6_Witness ==
  /\ last = Resp("wallet", "INSUFFICIENT_FUNDS")
  /\ \E i \in DOMAIN ledger : ledger[i].type = "debit"

\* the LotteryResult records of lottery l
ResultsOf(l) == {i \in DOMAIN results : results[i].lotteryId = l}

\* the prize credits of lottery l in the ledger
PrizeEntries(l) ==
  LET prize(e) == e.description[1] = "prize" /\ e.description[2] = l
  IN SelectSeq(ledger, prize)

\* C8: a draw called on a lottery whose result is announced fails with
\* "Result already announced", forced (the administrator's route) or not (the
\* cron callback), and changes no balance, no ledger entry and no result.
C8_AnnouncedLotteryNotDrawnAgain ==
  [][/\ \A p \in Reqs, l \in LotteryIds :
          (lot[l].exists /\ lot[l].flags.resultAnnounced /\ AdminDrawStart(p, l))
          => /\ last' = Resp("draw", "Result already announced")
             /\ UNCHANGED <<users, ledger, results>>
             /\ proc'[p] = IdleProc
     /\ \A p \in Crons :
          (/\ proc[p].pc = "s_loop"
           /\ proc[p].todo # <<>>
           /\ lot[Head(proc[p].todo).id].flags.resultAnnounced
           /\ SweepDraw(p))
          => /\ last' = Resp("draw", "Result already announced")
             /\ UNCHANGED <<users, ledger, results>>
             /\ ~proc'[p].active]_vars

\* C8, its case: a lottery has its result and a draw of it has just been
\* refused.
C8_Witness ==
  /\ last = Resp("draw", "Result already announced")
  /\ ResultsOf("L1") # {}

\* C9: in every reachable state a lottery has at most one LotteryResult and no
\* winning ticket of it has two prize credits, whatever the interleaving of
\* the draws (cron callbacks that overlap, a cron draw next to a forced one).
C9_DrawnAtMostOnce ==
  \A l \in LotteryIds :
    /\ Cardinality(ResultsOf(l)) <= 1
    /\ \A i, j \in 1..Len(PrizeEntries(l)) :
         i # j => PrizeEntries(l)[i].description # PrizeEntries(l)[j].description
    /\ ResultsOf(l) = {} => PrizeEntries(l) = <<>>

\* C9, its case: the result of a lottery is committed while another draw of
\* it, begun before that, has still to write.
C9_Witness ==
  \E p \in Pids :
    /\ proc[p].pc = "d_write"
    /\ ResultsOf(proc[p].l) # {}
    /\ ~proc[p].vLot[proc[p].l].flags.resultAnnounced

\* C10: for every LotteryResult, the prize credits of its lottery are one per
\* recorded winner, in order, each of the winner's prizeAmount to the winner's
\* account; and the wallets together hold the opening balances, less the
\* purchases, plus the prizeAmount of every recorded winner.
C10_CreditsMatchWinners ==
  /\ \A i \in DOMAIN results :
       LET w == results[i].winners
           e == PrizeEntries(results[i].lotteryId)
       IN /\ Len(e) = Len(w)
          /\ \A k \in 1..Len(w) :
               /\ e[k].type = "credit"
               /\ e[k].user = w[k].userId
               /\ e[k].amount = w[k].prizeAmount
               /\ e[k].description[3] = w[k].ticketNumber
  /\ SumSeq([k \in 1..2 |-> users[IF k = 1 THEN "u1" ELSE "u2"].balance])
       = SumSeq([k \in 1..2 |-> OpeningBalance(IF k = 1 THEN "u1" ELSE "u2")])
         - SumSeq([k \in 1..Len(tps) |-> tps[k].totalPrice])
         + SumSeq([i \in 1..Len(results) |->
                     SumSeq([k \in 1..Len(results[i].winners) |->
                               results[i].winners[k].prizeAmount])])

\* C10, its case: a draw with more than one winner is committed.
C10_Witness ==
  \E i \in DOMAIN results :
    /\ Len(results[i].winners) >= 2
    /\ Len(PrizeEntries(results[i].lotteryId)) >= 2

\* ---------------------------------------------------------------- bands
\* winners a band has room for
BandSize(ws, b) == ws[b].toRank - ws[b].fromRank + 1

RECURSIVE SlotsUpTo(_, _)
\* winners the bands 1..b have room for
SlotsUpTo(ws, b) == IF b = 0 THEN 0 ELSE SlotsUpTo(ws, b - 1) + BandSize(ws, b)

\* the band the rank-th winner, counted from 1 in the order of the bands, falls in
BandOf(ws, rank) ==
  CHOOSE b \in 1..Len(ws) : SlotsUpTo(ws, b - 1) < rank /\ rank <= SlotsUpTo(ws, b)

\* ranks 1, 2, 3, ... and for each the prize of its band
RanksAndPrizes(ws, winners) ==
  \A i \in 1..Len(winners) :
    /\ winners[i].rank = i
    /\ i <= SlotsUpTo(ws, Len(ws))
    /\ winners[i].prizeAmount = ws[BandOf(ws, i)].prizeAmount

\* the draws past their checks
Drawing == {p \in Pids : proc[p].pc \in {"d_write", "d_commit"}}

\* C11: a draw over T sold tickets names min(T, s_1 + ... + s_k) winners, with
\* ranks 1, 2, 3, ... in the order of the bands and for each rank the
\* prizeAmount of the band that rank falls in; every persisted result has
\* that shape, and fewer tickets than slots is no error.
C11_WinnersFollowBands ==
  /\ \A p \in Drawing :
       LET l == proc[p].l
           ws == proc[p].vLot[l].winnerStructure
           T == Len(AllTickets(proc[p].vTps, l, 1))
       IN /\ Len(proc[p].winners) = Min(T, SlotsUpTo(ws, Len(ws)))
          /\ RanksAndPrizes(ws, proc[p].winners)
  /\ \A i \in DOMAIN results :
       RanksAndPrizes(lot[results[i].lotteryId].winnerStructure, results[i].winners)

\* a result with two winners where the bands have room for three: the tickets
\* ran out inside the second band
C11_Witness ==
  \E i \in DOMAIN results :
    LET ws == lot[results[i].lotteryId].winnerStructure IN
    /\ Len(ws) = 2
    /\ Len(results[i].winners) = 2
    /\ SlotsUpTo(ws, Len(ws)) = 3
    /\ results[i].winners[2].prizeAmount = ws[2].prizeAmount

\* ---------------------------------------------------------------- sweep and draw
\* C12: when the sweep comes to a lottery it found ended, due and with
\* ticketsSold = 0, it sets resultAnnounced and starts no draw: after the step
\* the lottery has no LotteryResult and no prize entry, and no balance, ledger
\* entry or result has changed.
C12_NoTicketsAnnouncedWithoutDraw ==
  [][\A p \in Crons :
       (/\ proc[p].pc = "s_loop"
        /\ proc[p].todo # <<>>
        /\ Head(proc[p].todo).ticketsSold = 0
        /\ proc'[p] # proc[p])
       => LET l == Head(proc[p].todo).id IN
          /\ lot'[l].flags.resultAnnounced
          /\ proc'[p].pc = "s_loop"
          /\ results' = results /\ users' = users /\ ledger' = ledger
          /\ \A i \in DOMAIN results' : results'[i].lotteryId # l
          /\ \A i \in DOMAIN ledger' :
               ~(ledger'[i].description[1] = "prize" /\ ledger'[i].description[2] = l)
    ]_vars

\* a lottery announced by the sweep with nothing sold and nothing drawn
C12_Witness ==
  /\ lot["L1"].flags.resultAnnounced
  /\ lot["L1"].ticketsSold = 0
  /\ ResultsOf("L1") = {}
  /\ \E p \in Crons : proc[p].op = "sweep" /\ proc[p].pc = "s_loop"

\* the draw time is reached and the lottery has ended, by the clock or sold out
DrawReady(l) ==
  /\ now >= lot[l].drawDatetime
  /\ \/ now >= lot[l].endDatetime
     \/ lot[l].ticketsSold >= lot[l].maxTickets /\ lot[l].flags.isEnded

\* a draw of lottery l is asked for without force, by the cron callback or by
\* another caller of the service
UnforcedDrawStart(p, l) ==
  \/ ServiceDrawStart(p, l)
  \/ SweepDraw(p) /\ Head(proc[p].todo).id = l

\* C13: a draw asked for without force goes past its checks only if, at the
\* call, now >= drawDatetime and the lottery has ended; before drawDatetime it
\* fails with "Lottery draw time not reached yet", and a lottery not ended
\* fails with that or with "Lottery not ended yet"; the failure changes nothing.
C13_UnforcedDrawWaitsForDrawTime ==
  [][\A p \in Pids, l \in LotteryIds :
       UnforcedDrawStart(p, l)
       => /\ proc'[p].pc = "d_write" => lot[l].exists /\ DrawReady(l)
          /\ (lot[l].exists /\ ~lot[l].flags.resultAnnounced /\ ~DrawReady(l))
             => /\ last' = Resp("draw",
                       IF now < lot[l].drawDatetime
                         THEN "Lottery draw time not reached yet"
                         ELSE "Lottery not ended yet")
                /\ proc'[p].pc # "d_write"
                /\ UNCHANGED db
    ]_vars

\* tickets are sold, the draw time is not reached, and an unforced draw has
\* just been refused for it
C13_Witness ==
  /\ last = Resp("draw", "Lottery draw time not reached yet")
  /\ tps # <<>>
  /\ now < lot["L1"].drawDatetime

\* a credit of the draw p is about to make will be refused by updateWallet
CreditWillFail(p) ==
  \E i \in DOMAIN proc[p].winners :
    LET w == proc[p].winners[i] IN
    \/ w.prizeAmount = 0
    \/ proc[p].vUsers[w.userId].role # "user"

\* C14: when a credit of a draw fails, the step that meets the failure ends
\* the draw and changes no balance, ledger entry, result or lottery flag; the
\* caller gets the error, and the cron callback goes on to its next lottery
\* without announcing this one.
C14_FailedCreditAbortsDraw ==
  [][\A p \in Pids :
       (/\ proc[p].pc = "d_write"
        /\ CreditWillFail(p)
        /\ proc'[p].pc # "d_write")
       => /\ UNCHANGED db
          /\ ~lot'[proc[p].l].flags.resultAnnounced
          /\ last'.op = "draw"
          /\ last'.resp \in {"Invalid amount", "Only users have wallets",
                             "WriteConflict"}
          /\ proc'[p].pc = (IF proc[p].op = "sweep" THEN "s_loop" ELSE "idle")
          /\ proc[p].op = "sweep" => proc'[p].todo = Tail(proc[p].todo)
    ]_vars

\* a draw has just failed on a credit after tickets were sold, and nothing of
\* it is stored
C14_Witness ==
  /\ last \in {Resp("draw", "Invalid amount"), Resp("draw", "Only users have wallets")}
  /\ tps # <<>>
  /\ results = <<>>
  /\ \A i \in DOMAIN ledger : ledger[i].description[1] # "prize"
  /\ ~lot["L1"].flags.resultAnnounced

\* ---------------------------------------------------------------- lifecycle
\* C15: the stored phase of a lottery never moves backward: isEnded, once
\* true, stays true and the lottery is not marked active again;
\* resultAnnounced, once true, stays true; a lottery that has left the
\* upcoming phase (marked active or ended) is never marked upcoming again,
\* and an active or ended lottery is not flagged upcoming.
C15_LifecycleNeverRegresses ==
  [][\A l \in LotteryIds :
       lot[l].exists
       => /\ lot'[l].exists
          /\ lot[l].flags.isEnded => lot'[l].flags.isEnded
          /\ lot[l].flags.resultAnnounced => lot'[l].flags.resultAnnounced
          /\ lot[l].flags.isEnded => ~lot'[l].flags.isActive
          /\ ~lot[l].flags.isUpcoming => ~lot'[l].flags.isUpcoming
          /\ (lot'[l].flags.isActive \/ lot'[l].flags.isEnded)
               => ~lot'[l].flags.isUpcoming
    ]_vars

\* a lottery marked ended, still to be announced, while a purchase that read
\* it during the sale is still open
C15_Witness ==
  /\ lot["L1"].flags.isEnded
  /\ ~lot["L1"].flags.resultAnnounced
  /\ \E p \in Reqs : proc[p].pc = "p_write" /\ ~proc[p].vLot["L1"].flags.isEnded

\* the phase of a lottery document as a function of the time, its ticketsSold
\* and its timestamps
PhaseAt(doc, t) ==
  LET soldOut == doc.ticketsSold >= doc.maxTickets IN
  [isUpcoming |-> t < doc.startDatetime /\ ~soldOut,
   isActive |-> doc.startDatetime <= t /\ t < doc.endDatetime /\ ~soldOut,
   isEnded |-> t >= doc.endDatetime \/ soldOut]

\* the phase flags a lottery document stores
StoredPhase(doc) ==
  [isUpcoming |-> doc.flags.isUpcoming, isActive |-> doc.flags.isActive,
   isEnded |-> doc.flags.isEnded]

C17_NoOverlappingSweeps ==
  \A p, q \in Crons :
    (proc[p].pc # "idle" /\ proc[q].pc # "idle" /\ proc[p].snow # proc[q].snow)
    => p = q

\* ---------------------------------------------------------------- purchase checks
\* the lottery is on sale by the clock and by its tickets
OnSale(l) ==
  /\ lot[l].startDatetime <= now
  /\ now < lot[l].endDatetime
  /\ lot[l].ticketsSold < lot[l].maxTickets

\* C18: a purchase goes past its checks only if quantity > 0, the lottery
\* exists, startDatetime <= now < endDatetime and ticketsSold < maxTickets; a
\* purchase with quantity > 0 on an existing lottery that has not started,
\* has passed endDatetime or is sold out is answered "Lottery is not active"
\* and changes nothing, whatever the stored flags say.
C18_PurchaseOnlyWhileOnSale ==
  [][\A p \in Reqs, u \in Accounts, l \in PurchaseLotteryIds, q \in Quantities :
       PurchaseStart(p, u, l, q, <<>>)
       => LET exists == l \in LotteryIds /\ lot[l].exists IN
          /\ proc'[p].pc = "p_write" => q > 0 /\ exists /\ OnSale(l)
          /\ (q > 0 /\ exists /\ ~OnSale(l))
             => /\ last' = Resp("purchase", "Lottery is not active")
                /\ proc'[p].pc = "idle"
                /\ UNCHANGED db
    ]_vars

\* a purchase has just been refused as not active although the stored flags
\* still say active
C18_Witness ==
  /\ last = Resp("purchase", "Lottery is not active")
  /\ lot["L1"].flags.isActive
  /\ ~lot["L1"].flags.isEnded
  /\ ~OnSale("L1")

\* the numbers of lottery l's space 1..maxTickets that no TicketPurchase holds
UnsoldNumbers(l) ==
  {n \in 1..lot[l].maxTickets :
     \A i \in DOMAIN tps :
       tps[i].lotteryId = l
       => \A k \in DOMAIN tps[i].ticketNumbers :
            tps[i].ticketNumbers[k] # TicketNum(lot[l].lotteryPrefix, n)}

\* tickets is the list of the Len(tickets) lowest unsold numbers, ascending
LowestUnsold(l, tickets) ==
  \A i \in DOMAIN tickets :
    \E n \in UnsoldNumbers(l) :
      /\ tickets[i] = TicketNum(lot[l].lotteryPrefix, n)
      /\ Cardinality({m \in UnsoldNumbers(l) : m < n}) = i - 1

\* C19: a purchase without chosenTickets that passes its checks is given
\* exactly quantity numbers, the lowest unsold ones of 1..maxTickets in
\* ascending order; when fewer than quantity numbers are unsold the request
\* is rejected and changes nothing.
C19_AutoAssignLowestUnsold ==
  [][\A p \in Reqs, u \in Accounts, l \in LotteryIds, q \in Quantities :
       (lot[l].exists /\ q > 0 /\ PurchaseStart(p, u, l, q, <<>>))
       => /\ proc'[p].pc = "p_write"
             => /\ Len(proc'[p].tickets) = q
                /\ LowestUnsold(l, proc'[p].tickets)
          /\ Cardinality(UnsoldNumbers(l)) < q
             => /\ proc'[p].pc = "idle"
                /\ last'.op = "purchase"
                /\ last'.resp \in {"Not enough tickets available",
                                   "Lottery is not active",
                                   "Per-user limit exceeded"}
                /\ UNCHANGED db
    ]_vars

\* number 2 was sold by choice, and a purchase of two tickets without
\* chosenTickets has been given numbers 1 and 3
C19_Witness ==
  \E p \in Reqs :
    /\ proc[p].pc = "p_write"
    /\ TicketNum("PL", 2) \in SoldTicketsSet(tps, "L1")
    /\ proc[p].tickets = <<TicketNum("PL", 1), TicketNum("PL", 3)>>

\* the chosen numbers that are not unsold numbers of the lottery's space
Offending(l, chosenTickets) ==
  LET bad(t) == \A n \in UnsoldNumbers(l) : t # TicketNum(lot[l].lotteryPrefix, n)
  IN SelectSeq(chosenTickets, bad)

\* C20: a purchase with chosenTickets passes its checks only if every chosen
\* number is an unsold number of the lottery's space and their count equals
\* quantity; it is then given exactly the chosen numbers. Otherwise it is
\* rejected and changes nothing: with the list of the offending numbers, or,
\* when no number offends, with the quantity mismatch (unless the lottery is
\* not on sale or the per-user limit already refused it).
C20_ChosenTicketsChecked ==
  [][\A p \in Reqs, u \in Accounts, l \in LotteryIds, q \in Quantities,
        c \in ChosenLists \ {<<>>} :
       (lot[l].exists /\ q > 0 /\ PurchaseStart(p, u, l, q, c))
       => /\ proc'[p].pc = "p_write"
             => /\ Offending(l, c) = <<>>
                /\ Len(c) = q
                /\ proc'[p].tickets = c
          /\ (Offending(l, c) # <<>> \/ Len(c) # q)
             => /\ proc'[p].pc = "idle"
                /\ UNCHANGED db
                /\ \/ last' = Resp("purchase", "Lottery is not active")
                   \/ last' = Resp("purchase", "Per-user limit exceeded")
                   \/ /\ Offending(l, c) # <<>>
                      /\ last' = [op |-> "purchase",
                                  resp |-> "Some chosen tickets are invalid or already sold",
                                  invalid |-> Offending(l, c)]
                   \/ /\ Offending(l, c) = <<>>
                      /\ last' = Resp("purchase",
                                      "Quantity does not match chosen tickets count")
    ]_vars

\* number 2 is sold, and a request that chose it has just been refused with
\* that number listed
C20_Witness ==
  /\ TicketNum("PL", 2) \in SoldTicketsSet(tps, "L1")
  /\ last = [op |-> "purchase",
             resp |-> "Some chosen tickets are invalid or already sold",
             invalid |-> <<TicketNum("PL", 2)>>]

\* ---------------------------------------------------------------- isolation
\* C21: purchases on one lottery are serializable. A purchase that commits
\* takes effect as if it had run alone at its commit: ticketsSold grows by
\* its quantity from the value stored then, the numbers it was given are
\* unsold then, the buyer's record is the one that exists then (or none
\* exists and one is created), the buyer stays within the per-user limit and
\* pays from the balance stored then. A purchase that meets another one's
\* write aborts and changes nothing.
C21_PurchasesSerializable ==
  [][\A p \in Reqs :
       /\ (proc[p].pc = "p_commit" /\ proc'[p].pc = "idle")
          => LET l == proc[p].l
                 u == proc[p].u
                 e == ExistingPurchase(tps, l, u)
             IN /\ lot'[l] = [lot[l] EXCEPT !.ticketsSold = @ + proc[p].qty]
                /\ \A k \in DOMAIN proc[p].tickets :
                     proc[p].tickets[k] \notin SoldTicketsSet(tps, l)
                /\ e = proc[p].exist
                /\ ExistingQty(tps, l, u) + proc[p].qty <= lot[l].maxTicketsPerUser
                /\ users'[u].balance = users[u].balance - proc[p].cost
                /\ IF e = NoTp
                     THEN tps' = Append(tps,
                            TicketPurchaseDoc(l, u, proc[p].tickets, proc[p].qty,
                                              lot[l].ticketPrice, proc[p].cost))
                     ELSE tps' = [tps EXCEPT
                            ![e].ticketNumbers = @ \o proc[p].tickets,
                            ![e].quantity = @ + proc[p].qty,
                            ![e].totalPrice = @ + proc[p].cost]
       /\ (proc[p].pc = "p_write" /\ proc'[p].pc = "idle") => UNCHANGED db
    ]_vars

\* two purchases overlapped: one is committed, the other has just been
\* aborted by the write conflict
C21_Witness ==
  /\ last = Resp("purchase", "WriteConflict")
  /\ tps # <<>>

\* the signed sum of the entries a transaction is about to add for account u
PendingChange(p, u) ==
  LET mine(e) == e.user = u
      es == SelectSeq(proc[p].nLedger, mine)
  IN SumSeq([i \in 1..Len(es) |->
               IF es[i].type = "credit" THEN es[i].amount ELSE -es[i].amount])

\* C22: no balance update is lost. Every step that stores a balance for an
\* operation that then reports success moves the stored balance by exactly
\* the operation's change, whatever ran since the operation read the balance:
\* the commit of a purchase debit, of a prize credit and of updateWallet, the
\* save of a withdrawal, of a top-up, of a top-up approval and of a
\* withdrawal rejection.
C22_NoLostBalanceUpdate ==
  [][\A p \in Reqs :
       LET u == proc[p].u IN
       /\ (proc[p].pc \in {"p_commit", "uw_commit", "d_commit"}
             /\ proc'[p].pc # proc[p].pc)
          => \A a \in Accounts :
               users'[a].balance = users[a].balance + PendingChange(p, a)
       /\ (proc[p].pc = "w_save" /\ proc'[p].pc = "w_rec")
          => users'[u].balance = users[u].balance - proc[p].amt
       /\ (proc[p].pc = "t_save" /\ proc'[p].pc = "t_rec")
          => users'[u].balance = users[u].balance + proc[p].amt
       /\ (proc[p].pc = "m_save" /\ proc'[p].pc = "m_rec")
          => users'[u].balance = users[u].balance + proc[p].amt
    ]_vars

\* C23: every ticket sold takes part in the draw of its lottery. When a draw
\* commits, the tickets it drew from are all the tickets held in the
\* lottery's TicketPurchase records; and no purchase commits on a lottery
\* whose result is announced, also when the draw was forced by the
\* administrator.
C23_EveryTicketIsDrawn ==
  [][\A p \in Pids :
       /\ (proc[p].pc = "d_commit" /\ proc'[p].pc # "d_commit")
          => AllTickets(proc[p].vTps, proc[p].l, 1) = AllTickets(tps, proc[p].l, 1)
       /\ (proc[p].pc = "p_commit" /\ proc'[p].pc = "idle")
          => ~lot[proc[p].l].flags.resultAnnounced
    ]_vars

\* C24: a purchase refused by one of the handler's checks (quantity <= 0,
\* malformed lottery id, lottery not found, lottery not active, per-user limit
\* exceeded, not enough tickets available, chosen tickets invalid or not
\* matching the quantity) answers with that refusal and leaves balances,
\* ledger entries, TicketPurchase records and lotteries as they were.
C24_RejectedPurchaseChangesNothing ==
  [][\A p \in Reqs, u \in Accounts, l \in PurchaseLotteryIds, q \in Quantities,
        c \in ChosenLists :
       (PurchaseStart(p, u, l, q, c)
          /\ PurchaseVerdict(lot, tps, now, l, u, q, c) # "ok")
       => /\ last'.op = "purchase"
          /\ last'.resp = PurchaseVerdict(lot, tps, now, l, u, q, c)
          /\ UNCHANGED db
    ]_vars
C24_Witness ==
  /\ last = Resp("purchase", "Not enough tickets available")
  /\ tps # <<>>
  /\ \E u \in Accounts : users[u].balance < OpeningBalance(u)

\* the TicketPurchase records of user u for lottery l
PurchasesOf(l, u) ==
  {i \in 1..Len(tps) : tps[i].lotteryId = l /\ tps[i].userId = u}

IsPrefix(s, t) == Len(s) <= Len(t) /\ SubSeq(t, 1, Len(s)) = s

\* C25: in every state a user has at most one TicketPurchase record per
\* lottery, however that user's purchase requests interleave; and from one
\* state to the next no record disappears or changes owner, and the ticket
\* numbers of a record are only extended.
C25_OneRecordPerLotteryAndUser ==
  /\ [](\A l \in LotteryIds, u \in Accounts : Cardinality(PurchasesOf(l, u)) <= 1)
  /\ [][/\ Len(tps') >= Len(tps)
        /\ \A i \in 1..Len(tps) :
             /\ tps'[i].lotteryId = tps[i].lotteryId
             /\ tps'[i].userId = tps[i].userId
             /\ IsPrefix(tps[i].ticketNumbers, tps'[i].ticketNumbers)
       ]_vars
C25_Witness ==
  /\ Len(tps) = 1
  /\ tps[1].ticketNumbers = <<TicketNum("PL", 2), TicketNum("PL", 1)>>

\* entry e records a change of account u by the signed amount, to newBalance
RecordsChange(e, u, amount, newBalance) ==
  /\ e.user = u
  /\ e.type = (IF amount > 0 THEN "credit" ELSE "debit")
  /\ e.amount = (IF amount > 0 THEN amount ELSE -amount)
  /\ e.balanceAfter = newBalance

\* C26: a wallet operation (updateWallet) that succeeds moves the balance by
\* exactly the signed amount and adds exactly one ledger entry, of type credit
\* for a positive and debit for a negative amount, whose amount is the
\* absolute value of the change and whose balanceAfter is the new balance.
\* Balance and entry appear in the same step: nothing is visible while the
\* operation is under way, nothing at all when it fails.
C26_WalletOperationIsOneEntry ==
  [][\A p \in Reqs :
       LET u == proc[p].u IN
       /\ (proc[p].pc = "uw_commit" /\ proc'[p].pc # "uw_commit")
          => /\ last' = Resp("wallet", "ok")
             /\ users' = [users EXCEPT ![u].balance = @ + proc[p].amt]
             /\ Len(ledger') = Len(ledger) + 1
             /\ SubSeq(ledger', 1, Len(ledger)) = ledger
             /\ RecordsChange(ledger'[Len(ledger')], u, proc[p].amt,
                              users'[u].balance)
       /\ (proc[p].pc = "p_commit" /\ proc'[p].pc # "p_commit")
          => /\ users' = [users EXCEPT ![u].balance = @ - proc[p].cost]
             /\ Len(ledger') = Len(ledger) + 1
             /\ SubSeq(ledger', 1, Len(ledger)) = ledger
             /\ RecordsChange(ledger'[Len(ledger')], u, -proc[p].cost,
                              users'[u].balance)
       /\ (proc[p].pc \in {"uw_save", "p_write"} /\ proc'[p].pc # proc[p].pc)
          => UNCHANGED db
       /\ (\E a \in Amounts : WalletStart(p, u, a)) => UNCHANGED db
    ]_vars
C26_Witness ==
  /\ last = Resp("wallet", "ok")
  /\ ledger # <<>>
  /\ ledger[Len(ledger)].type = "debit"
  /\ ledger[Len(ledger)].amount = 4

\* C27: a wallet operation or a draw that runs in the caller's transaction
\* (the debit of a purchase, the administrator's draw) ends without making
\* anything visible; its balance changes, ledger entries, LotteryResult and
\* resultAnnounced flag appear together when the caller commits, and nothing
\* appears when the caller answers with an error. Called without a
\* transaction, updateWallet and drawLottery make their writes visible in
\* one commit on success, and nothing on any error.
C27_CallerTransactionIsRespected ==
  [][\A p \in Reqs :
       LET l == proc[p].l IN
       /\ (proc[p].pc \in {"p_write", "d_write", "uw_save"}
             /\ proc'[p].pc # proc[p].pc)
          => UNCHANGED db
       /\ (proc[p].pc \in {"p_commit", "d_commit", "uw_commit"}
             /\ proc'[p].pc # proc[p].pc)
          => /\ last'.resp \in {"201", "ok"}
             /\ ledger' = ledger \o proc[p].nLedger
             /\ \A a \in Accounts :
                  users'[a].balance = users[a].balance + PendingChange(p, a)
       /\ (proc[p].pc = "d_commit" /\ proc'[p].pc # "d_commit")
          => /\ results' = Append(results, LotteryResultDoc(l, proc[p].winners))
             /\ lot'[l].flags.resultAnnounced
             /\ ~lot[l].flags.resultAnnounced
       /\ (last' # last /\ last'.op \in {"purchase", "draw", "wallet"}
             /\ last'.resp \notin {"201", "ok"})
          => UNCHANGED db
    ]_vars
\* the administrator's draw has returned to the route: credits and result are
\* written in the route's transaction, none of them visible yet
C27_Witness ==
  \E p \in Reqs :
    /\ proc[p].pc = "d_commit"
    /\ ~proc[p].own
    /\ proc[p].nLedger # <<>>
    /\ proc[p].nResults # <<>>
    /\ results = <<>>
    /\ ~lot[proc[p].l].flags.resultAnnounced
    /\ \A i \in DOMAIN ledger : ledger[i].type = "debit"

\* the quantity, the total price and the ticket numbers user u holds for
\* lottery l in the TicketPurchase collection t
Allocation(t, l, u) ==
  LET e == ExistingPurchase(t, l, u) IN
  IF e = NoTp THEN [quantity |-> 0, totalPrice |-> 0, ticketNumbers |-> <<>>]
  ELSE [quantity |-> t[e].quantity, totalPrice |-> t[e].totalPrice,
        ticketNumbers |-> t[e].ticketNumbers]

\* C28: a purchase of `quantity` tickets that succeeds debits the buyer by
\* exactly ticketPrice * quantity with exactly one ledger entry, a debit of
\* that amount; the buyer's allocation grows by `quantity`, its totalPrice by
\* the same cost and its ticket numbers by exactly the numbers returned, of
\* which there are `quantity`; lottery.ticketsSold grows by `quantity`;
\* nobody else's balance, allocation or lottery changes.
C28_PurchaseEffect ==
  [][\A p \in Reqs :
       (proc[p].pc = "p_commit" /\ proc'[p].pc # "p_commit")
       => LET l == proc[p].l
              u == proc[p].u
              quantity == proc[p].qty
              cost == lot[l].ticketPrice * quantity
              before == Allocation(tps, l, u)
              after == Allocation(tps', l, u)
          IN /\ last' = Resp("purchase", "201")
             /\ quantity > 0
             /\ users' = [users EXCEPT ![u].balance = @ - cost]
             /\ ledger' = Append(ledger, ledger'[Len(ledger')])
             /\ ledger'[Len(ledger')].user = u
             /\ ledger'[Len(ledger')].type = "debit"
             /\ ledger'[Len(ledger')].amount = cost
             /\ after.quantity = before.quantity + quantity
             /\ after.totalPrice = before.totalPrice + cost
             /\ after.ticketNumbers = before.ticketNumbers \o proc[p].tickets
             /\ Len(proc[p].tickets) = quantity
             /\ lot' = [lot EXCEPT ![l].ticketsSold = @ + quantity]
             /\ \A v \in Accounts \ {u} : Allocation(tps', l, v) = Allocation(tps, l, v)
    ]_vars
\* a purchase of one ticket and a purchase of two have both succeeded
C28_Witness ==
  /\ last = Resp("purchase", "201")
  /\ lot["L1"].ticketsSold = 3
  /\ Len(ledger) = 2
  /\ \E i \in DOMAIN ledger : ledger[i].amount = 4
  /\ \E i \in DOMAIN ledger : ledger[i].amount = 2

\* C29: a draw of a lottery none of whose tickets is sold fails and changes
\* nothing: no LotteryResult, no announcement, no wallet change. Whenever the
\* draw gets past the checks made before the tickets are collected (always
\* with force; without force once the draw time is reached and the lottery
\* has ended), the error is "No tickets sold for this lottery".
C29_NoTicketsNoDraw ==
  [][\A p \in Pids, l \in LotteryIds :
       (/\ AdminDrawStart(p, l) \/ UnforcedDrawStart(p, l)
        /\ lot[l].exists
        /\ ~lot[l].flags.resultAnnounced
        /\ \A i \in DOMAIN tps : tps[i].lotteryId # l)
       => /\ UNCHANGED db
          /\ proc'[p].pc \notin {"d_write", "d_commit"}
          /\ last'.op = "draw"
          /\ last'.resp # "201"
          /\ (AdminDrawStart(p, l) \/ DrawReady(l))
             => last'.resp = "No tickets sold for this lottery"
    ]_vars
\* the administrator's forced draw of a lottery still on sale, nothing sold
C29_Witness ==
  /\ last = Resp("draw", "No tickets sold for this lottery")
  /\ now < lot["L1"].endDatetime
  /\ tps = <<>>
  /\ results = <<>>
  /\ ledger = <<>>
  /\ ~lot["L1"].flags.resultAnnounced

RECURSIVE ReservedSum(_, _)
\* the amounts of the withdrawal requests of user u, from record i on, that
\* are pending or approved
ReservedSum(u, i) ==
  IF i > Len(wrecs) THEN 0
  ELSE (IF wrecs[i].user = u /\ wrecs[i].type = "withdraw"
           /\ wrecs[i].status \in {"pending", "approved"}
          THEN wrecs[i].amount ELSE 0) + ReservedSum(u, i + 1)

\* C30: a withdrawal request takes its amount from the balance when it is
\* created, approving it leaves the balance alone and rejecting it gives the
\* amount back: once no request is being handled, every balance is the
\* opening balance less the amounts of the user's pending and approved
\* withdrawal requests, a rejected request counting for nothing.
C30_WithdrawalNetEffect ==
  (\A p \in Pids : proc[p].pc = "idle")
  => \A u \in Accounts : users[u].balance = OpeningBalance(u) - ReservedSum(u, 1)

\* the sum of quantity over the TicketPurchase records of lottery l
SoldQuantity(l) ==
  LET ofl(d) == d.lotteryId = l
      recs == SelectSeq(tps, ofl)
  IN SumSeq([i \in 1..Len(recs) |-> recs[i].quantity])

\* C31: in every reachable state, for every lottery, ticketsSold equals the
\* sum of quantity over the lottery's TicketPurchase records, which equals
\* the number of distinct ticket numbers those records hold.
C31_TicketsSoldIsDistinctNumbers ==
  \A l \in LotteryIds :
    lot[l].exists
    => /\ lot[l].ticketsSold = SoldQuantity(l)
       /\ SoldQuantity(l) = Cardinality(SoldTicketsSet(tps, l))

\* C32: in every LotteryResult, each winner's ticketNumber is a number sold in
\* that lottery, the winner's userId is the user whose TicketPurchase holds
\* it, and no ticket number is in two winner entries.
C32_WinnersAreDistinctSoldTickets ==
  \A i \in DOMAIN results :
    LET l == results[i].lotteryId
        w == results[i].winners
    IN /\ \A k \in DOMAIN w :
            \E j \in DOMAIN tps :
              /\ tps[j].lotteryId = l
              /\ tps[j].userId = w[k].userId
              /\ w[k].ticketNumber \in Range(tps[j].ticketNumbers)
       /\ \A k, m \in DOMAIN w : k # m => w[k].ticketNumber # w[m].ticketNumber

\* C33: with the scheduler ticking for ever, every lottery whose draw time is
\* reached is eventually announced, whatever happened to the accounts of its
\* ticket holders and whatever its prize amounts.
C33_DueLotteryEventuallyAnnounced ==
  \A l \in LotteryIds :
    (lot[l].exists /\ now >= lot[l].drawDatetime)
      ~> (lot[l].exists /\ lot[l].flags.resultAnnounced)

\* C34: every purchase request ends the transaction it started: whenever its
\* handler has answered (success, refusal by a check, thrown error), the
\* transaction is committed or aborted and the session ended, so that no
\* handler slot is idle with a session left open.
C34_PurchaseEndsItsTransaction ==
  \A p \in Reqs : proc[p].pc = "idle" => ~proc[p].open /\ ~proc[p].active

\* the lifecycle flags of lottery l that are set
PhaseFlags(l) ==
  {f \in {"isUpcoming", "isActive", "isEnded"} : lot[l].flags[f]}

\* C35: in every reachable state, also between the steps of a cron callback
\* and while two callbacks overlap, at most one of the flags isUpcoming,
\* isActive and isEnded of a lottery is true.
C35_OnePhaseFlagAtMost ==
  \A l \in LotteryIds : lot[l].exists => Cardinality(PhaseFlags(l)) <= 1
\* a callback is between its steps 2 and 3 and has marked the lottery active,
\* while the clock has already passed endDatetime
C35_Witness ==
  \E p \in Crons :
    /\ proc[p].pc = "s_ended"
    /\ PhaseFlags("L1") = {"isActive"}
    /\ ~lot["L1"].flags.resultAnnounced
    /\ now >= lot["L1"].endDatetime

\* C36: in every reachable state a lottery whose result is announced is not
\* marked active, also when its draw was forced by the administrator before
\* endDatetime.
C36_AnnouncedIsNotActive ==
  \A l \in LotteryIds :
    (lot[l].exists /\ lot[l].flags.resultAnnounced) => ~lot[l].flags.isActive

\* C37 as stated: in a cron callback, when the draw of one lottery fails,
\* the loop goes on with the remaining lotteries it found and the failed
\* lottery is left as it was, not announced, so that it stays due for a
\* later callback.
C37_FailedLotteryNotAnnounced ==
  [][\A p \in Crons :
       (/\ proc[p].op = "sweep"
        /\ proc[p].pc \in {"s_loop", "d_write"}
        /\ proc'[p] # proc[p]
        /\ last'.op = "draw"
        /\ last'.resp # "201")
       => LET l == Head(proc[p].todo).id IN
          /\ UNCHANGED db
          /\ proc'[p].pc = "s_loop"
          /\ proc'[p].todo = Tail(proc[p].todo)
          /\ proc'[p].snow = proc[p].snow
          /\ ~proc'[p].active
          /\ ~lot'[l].flags.resultAnnounced
          /\ lot'[l].flags.isEnded
          /\ lot'[l].drawDatetime <= proc[p].snow
    ]_vars

\* C37: in a cron callback, when the draw of one lottery fails, the failing
\* attempt has written nothing (no flag, no LotteryResult, no credit) and
\* the loop goes on with the remaining lotteries it found; a lottery that
\* was not announced before the attempt is not announced after it and stays
\* due for a later callback, while a lottery another draw announced since
\* the callback found it stays announced: the attempt then fails as already
\* announced or on the write conflict with that draw.
C37_FailedDrawDoesNotStopTheSweep ==
  [][\A p \in Crons :
       (/\ proc[p].op = "sweep"
        /\ proc[p].pc \in {"s_loop", "d_write"}
        /\ proc'[p] # proc[p]
        /\ last'.op = "draw"
        /\ last'.resp # "201")
       => LET l == Head(proc[p].todo).id IN
          /\ UNCHANGED db
          /\ proc'[p].pc = "s_loop"
          /\ proc'[p].todo = Tail(proc[p].todo)
          /\ proc'[p].snow = proc[p].snow
          /\ ~proc'[p].active
          /\ lot'[l].flags.isEnded
          /\ lot'[l].drawDatetime <= proc[p].snow
          /\ lot'[l].flags.resultAnnounced
             => /\ lot[l].flags.resultAnnounced
                /\ last'.resp \in {"Result already announced", "WriteConflict"}
    ]_vars

\* one callback has gone through both lotteries: the draw of the first
\* failed and left it as it was, the second is announced
C37_Witness ==
  \E p \in Crons :
    /\ proc[p].pc = "s_loop"
    /\ proc[p].todo = <<>>
    /\ lot["L1"].ticketsSold > 0
    /\ lot["L1"].flags.isEnded
    /\ proc[p].snow >= lot["L1"].drawDatetime
    /\ ~lot["L1"].flags.resultAnnounced
    /\ lot["L2"].flags.resultAnnounced
    /\ \A i \in DOMAIN results : results[i].lotteryId = "L2"
    /\ \A i \in DOMAIN ledger : ledger[i].type = "credit" => ledger[i].description[2] = "L2"

RECURSIVE ApprovedTopUps(_, _)
\* the amounts of the approved top-up requests of user u, from record i on
ApprovedTopUps(u, i) ==
  IF i > Len(wrecs) THEN 0
  ELSE (IF wrecs[i].user = u /\ wrecs[i].type = "topup"
           /\ wrecs[i].status = "approved"
          THEN wrecs[i].amount ELSE 0) + ApprovedTopUps(u, i + 1)

\* C38: a request is processed at most once, whatever the interleaving of
\* the approve and reject calls on it: its status changes only from pending,
\* to approved or rejected, and never afterwards; and a top-up is credited at
\* most once, so that once no request is being handled every balance is the
\* opening balance plus the amounts of the user's approved top-up requests.
C38_RequestProcessedOnce ==
  /\ [][\A r \in DOMAIN wrecs :
          wrecs'[r].status # wrecs[r].status
          => /\ wrecs[r].status = "pending"
             /\ wrecs'[r].status \in {"approved", "rejected"}
       ]_vars
  /\ []((\A p \in Pids : proc[p].pc = "idle")
         => \A u \in Accounts :
              users[u].balance = OpeningBalance(u) + ApprovedTopUps(u, 1))

====
